---- MODULE Spec2Model ----
(***************************************************************************)
(* AurumIQ frontend: the trade details view (TradeDetails.jsx) with its    *)
(* PnL arithmetic and live-quote polling, the trade form (TradeForm.jsx)   *)
(* and the snapshot form (SnapshotForm) with their validation and submit,  *)
(* the analysis page (Analysis.jsx) and the snapshot details page          *)
(* (SnapshotDetails.jsx).                                                  *)
(*                                                                         *)
(* The specifications share the variables:                                 *)
(*   SpecCalc      the render-time PnL computation over a wide set of      *)
(*                 legs and quote states;                                  *)
(*   Spec          the life cycle of the trade details view: the trade     *)
(*                 fetch effect, the polling effect, edits, route changes, *)
(*                 unmount;                                                *)
(*   SpecLive      Spec with the answer to the pending load being fair and *)
(*                 route changes ending, for the termination of a load;    *)
(*   SpecDelete    the delete dialog of the trade details view;            *)
(*   SpecList      the pagination of the trades list;                      *)
(*   SpecForm      the trade form: field changes, add/remove leg,          *)
(*                 validate, submit and the completion of the request;     *)
(*   SpecSnapForm  the snapshot form, likewise;                            *)
(*   SpecAnalysis  the analysis page over the summary of a portfolio;      *)
(*   SpecSnapView  the snapshot details page over the comparison of a      *)
(*                 stored snapshot with the current quotes, and the sort   *)
(*                 of its legs table.                                      *)
(***************************************************************************)
EXTENDS Integers, Sequences, FiniteSets, TLC

VARIABLES
    mounted,      \* the TradeDetails component is mounted
    tradeId,      \* useParams().tradeId
    trade,        \* useState(null): the loaded trade, NoTrade for null
    livePrices,   \* useState(null): the latest quote state, NoPrices for null
    loading,      \* useState(true)
    error,        \* useState(null): "" for null
    formOpen,     \* the edit dialog of the view is open
    fetches,      \* tradesApi.getById requests in flight
    timers,       \* number of live setInterval timers of the polling effect
    polls,        \* number of tradesApi.getLivePrices requests in flight
    warned,       \* console.warn("Failed to fetch live prices") has been called
    view,         \* what the last render of TradeDetails produced
    formTrade,    \* TradeForm prop `trade` (NoTrade when creating)
    formLegs,     \* TradeForm state `legs`
    errors,       \* TradeForm state `errors`: the set of keys <<index, field>>
    formLoading,  \* TradeForm state `loading`
    formError,    \* TradeForm state `error`: "" for null
    pending,      \* the create/update request of the form in flight
    successes,    \* number of onSuccess calls made by the form
    edits,        \* number of user edits made in the form so far
    snapOpen,     \* SnapshotForm prop `open`
    snapshot,     \* SnapshotForm prop `snapshot` (NoSnapshot when creating)
    snapMeta,     \* SnapshotForm state snapshotName, description, snapshotType
    snapLegs,     \* SnapshotForm state `legs`
    snapErrors,   \* SnapshotForm state `errors`: the set of keys
    snapLoading,  \* SnapshotForm state `loading`
    snapError,    \* SnapshotForm state `error`: "" for null
    snapPending,  \* the create/update request of the snapshot form in flight
    snapSuccesses, \* number of onSuccess calls made by the snapshot form
    snapEdits,    \* number of user edits made in the snapshot form so far
    portfolio,    \* the stored trades and the quotes the summary is computed from
    analytics,    \* Analysis state `analytics`: NoAnalytics for null
    anLoading,    \* Analysis state `loading`
    anError,      \* Analysis state `error`: "" for null
    anView,       \* what the last render of Analysis produced
    snapStore,    \* the stored snapshot and the quotes it is compared with
    snapshotData, \* SnapshotDetails state `snapshot`: NoSnapshotData for null
    sdLoading,    \* SnapshotDetails state `loading`
    sdError,      \* SnapshotDetails state `error`: "" for null
    sdView,       \* what the last render of SnapshotDetails produced
    sortColumn,   \* SnapshotDetails state `sortColumn`
    sortDirection, \* SnapshotDetails state `sortDirection`
    listPage,     \* Trades list state `page` (zero-based)
    rowsPerPage,  \* Trades list state `rowsPerPage`
    totalCount,   \* Trades list state `totalCount`
    listRows,     \* Trades list state `trades`: the number of rows held
    listLoading,  \* Trades list state `loading`
    listError,    \* Trades list state `error`: "" for null
    listFetches,  \* params of the tradesApi.getList requests in flight
    lastRequest,  \* params of the latest tradesApi.getList call
    deleteDialogOpen, \* TradeDetails state `deleteDialogOpen`
    snackbar,     \* TradeDetails state `snackbar` (open, severity)
    deletes,      \* number of tradesApi.delete requests in flight
    deleted,      \* a delete request has succeeded
    navTimers,    \* pending setTimeout(() => navigate('/trades'), 1000)
    location      \* the route shown: "details" or "trades"

viewVars == <<mounted, tradeId, trade, livePrices, loading, error, formOpen,
              fetches, timers, polls, warned, view>>
formVars == <<formTrade, formLegs, errors, formLoading, formError, pending,
              successes, edits>>
snapFormVars == <<snapOpen, snapshot, snapMeta, snapLegs, snapErrors, snapLoading,
                  snapError, snapPending, snapSuccesses, snapEdits>>
analysisVars == <<portfolio, analytics, anLoading, anError, anView>>
snapViewVars == <<snapStore, snapshotData, sdLoading, sdError, sdView, sortColumn,
                  sortDirection>>
listVars == <<listPage, rowsPerPage, totalCount, listRows, listLoading, listError,
              listFetches, lastRequest>>
deleteVars == <<deleteDialogOpen, snackbar, deletes, deleted, navTimers, location>>
pageVars == <<snapFormVars, analysisVars, snapViewVars, listVars, deleteVars>>
vars == <<mounted, tradeId, trade, livePrices, loading, error, formOpen,
          fetches, timers, polls, warned, view, formTrade, formLegs, errors,
          formLoading, formError, pending, successes, edits, snapOpen, snapshot,
          snapMeta, snapLegs, snapErrors, snapLoading, snapError, snapPending,
          snapSuccesses, snapEdits, portfolio, analytics, anLoading, anError,
          anView, snapStore, snapshotData, sdLoading, sdError, sdView, sortColumn,
          sortDirection, listPage, rowsPerPage, totalCount, listRows, listLoading,
          listError, listFetches, lastRequest, deleteDialogOpen, snackbar, deletes,
          deleted, navTimers, location>>

----------------------------------------------------------------------------
(* Bounds of the model                                                     *)

MaxLegs == 2
MaxViewLegs == 1
MaxPolls == 1
MaxFetches == 2
MaxFormLegs == 2
MaxEdits == 1
MaxSuccesses == 1
MaxSnapLegs == 2
MaxSnapEdits == 1
MaxAnTrades == 2

----------------------------------------------------------------------------
(* JavaScript values that reach the arithmetic.  A price field of a leg    *)
(* is null, a number, or a decimal string such as "120.00"; an entry of    *)
(* livePrices.prices is undefined or an object { ltp }.                    *)

Null == [k |-> "null", v |-> 0]
Num(n) == [k |-> "num", v |-> n]
Str(n) == [k |-> "str", v |-> n]
Quote(n) == [k |-> "quote", v |-> n]

\* JavaScript truthiness: null and the number 0 are falsy; a non-empty
\* string (also "0.00") and an object are truthy.
Truthy(x) ==
    CASE x.k = "null" -> FALSE
      [] x.k = "num" -> x.v # 0
      [] x.k = "str" -> TRUE
      [] x.k = "quote" -> TRUE

\* parseFloat of a number or of a decimal string is the number it denotes.
parseFloat(x) == x.v

Abs(n) == IF n >= 0 THEN n ELSE 0 - n

----------------------------------------------------------------------------
(* Data: tickers, legs, trades, quote states                               *)

Tickers == {"GOLD", "SILVER"}
TradeIds == {1, 2}

NoTrade == [trade_id |-> 0, legs |-> << >>]
NoPrices == [loaded |-> FALSE, prices |-> [t \in Tickers |-> Null]]

Leg(tk, open, entry, exit, qty) ==
    [ticker |-> tk, is_open |-> open, entry_price |-> entry,
     exit_price |-> exit, quantity |-> qty]

Quantities == {10, -10}
ExitPrices == {Null, Num(0), Str(0), Str(120)}
QuoteValues == {Null, Quote(0), Quote(100), Quote(120)}

\* Legs as the API returns them: an open leg has no exit price, a closed
\* leg has one (or, for a row saved without it, null).
OpenLegs == {Leg(tk, TRUE, Str(100), Null, q) : tk \in Tickers, q \in Quantities}
ClosedLegs ==
    {Leg("GOLD", FALSE, Str(100), x, q) : x \in ExitPrices, q \in Quantities}
CalcLegs == OpenLegs \cup ClosedLegs

\* The sum of f over the indices in S.
RECURSIVE SumOver(_, _)
SumOver(f, S) ==
    IF S = {} THEN 0
    ELSE LET i == CHOOSE x \in S : TRUE IN f[i] + SumOver(f, S \ {i})

SeqsUpTo(S, n) == UNION {[1..m -> S] : m \in 1..n}

CalcTrades == {[trade_id |-> 1, legs |-> ls] : ls \in SeqsUpTo(CalcLegs, MaxLegs)}

QuoteStates == {[loaded |-> TRUE, prices |-> p] : p \in [Tickers -> QuoteValues]}

----------------------------------------------------------------------------
(* TradeDetails.jsx: render-time computation                               *)

formatPnL(num) ==
    [text |-> [sign |-> IF num >= 0 THEN "+" ELSE "-", abs |-> Abs(num)],
     color |-> IF num >= 0 THEN "success" ELSE "error",
     isProfit |-> num >= 0]

\* Variant: the open branch takes the size of the position, not its sign.
calculateLegPnL_Unsigned(leg, lp) ==
    IF ~leg.is_open /\ Truthy(leg.exit_price)
    THEN Num((parseFloat(leg.exit_price) - parseFloat(leg.entry_price)) * leg.quantity)
    ELSE IF leg.is_open /\ lp.loaded /\ Truthy(lp.prices[leg.ticker])
    THEN Num((lp.prices[leg.ticker].v - parseFloat(leg.entry_price)) * Abs(leg.quantity))
    ELSE Null

calculateLegPnL(leg, lp) ==
    IF ~leg.is_open /\ Truthy(leg.exit_price)
    THEN Num((parseFloat(leg.exit_price) - parseFloat(leg.entry_price)) * leg.quantity)
    ELSE IF leg.is_open /\ lp.loaded /\ Truthy(lp.prices[leg.ticker])
    THEN Num((lp.prices[leg.ticker].v - parseFloat(leg.entry_price)) * leg.quantity)
    ELSE Null

RECURSIVE reduceLegs(_, _, _)
reduceLegs(legs, lp, sum) ==
    IF legs = << >> THEN sum
    ELSE LET legPnL == calculateLegPnL(Head(legs), lp)
         IN  reduceLegs(Tail(legs), lp, IF legPnL # Null THEN sum + legPnL.v ELSE sum)

\* Variant: the total counts the closed legs only (the stored realized PnL).
RECURSIVE reduceClosedLegs(_, _, _)
reduceClosedLegs(legs, lp, sum) ==
    IF legs = << >> THEN sum
    ELSE LET legPnL == calculateLegPnL(Head(legs), lp)
         IN  reduceClosedLegs(Tail(legs), lp,
                 IF legPnL # Null /\ ~Head(legs).is_open THEN sum + legPnL.v ELSE sum)

totalPnL_RealizedOnly(t, lp) == IF t # NoTrade THEN reduceClosedLegs(t.legs, lp, 0) ELSE 0

totalPnL(t, lp) == IF t # NoTrade THEN reduceLegs(t.legs, lp, 0) ELSE 0

\* Variant: `every` in place of `some`.
hasOpenLegs_Every(t) == \A i \in 1..Len(t.legs) : t.legs[i].is_open

hasOpenLegs(t) == \E i \in 1..Len(t.legs) : t.legs[i].is_open

Dash == [kind |-> "dash", text |-> [sign |-> "", abs |-> 0]]

\* Variant: the cell tests the PnL for truthiness, so 0 shows as "-".
LegRow_Falsy(leg, lp) ==
    LET legPnL == calculateLegPnL(leg, lp)
    IN  [legPnL |-> legPnL,
         status |-> IF leg.is_open THEN "Open" ELSE "Closed",
         pnlCell |-> IF legPnL # Null /\ legPnL.v # 0
                     THEN [kind |-> "value", text |-> formatPnL(legPnL.v).text]
                     ELSE Dash]

\* One row of the legs table: the PnL cell shows the formatted value, or
\* "-" when the leg has no PnL.
LegRow(leg, lp) ==
    LET legPnL == calculateLegPnL(leg, lp)
    IN  [legPnL |-> legPnL,
         status |-> IF leg.is_open THEN "Open" ELSE "Closed",
         pnlCell |-> IF legPnL # Null
                     THEN [kind |-> "value", text |-> formatPnL(legPnL.v).text]
                     ELSE Dash]

CountLegs(t, open) == Cardinality({i \in 1..Len(t.legs) : t.legs[i].is_open = open})

Render(t, lp, ld, err) ==
    [branch |-> IF ld THEN "loading"
                ELSE IF err # "" THEN "error"
                ELSE IF t = NoTrade THEN "notfound" ELSE "main",
     totalPnL |-> totalPnL(t, lp),
     pnl |-> formatPnL(totalPnL(t, lp)),
     status |-> IF hasOpenLegs(t) THEN "Open" ELSE "Closed",
     totalLegs |-> Len(t.legs),
     openLegs |-> CountLegs(t, TRUE),
     closedLegs |-> CountLegs(t, FALSE),
     rows |-> [i \in 1..Len(t.legs) |-> LegRow(t.legs[i], lp)]]

----------------------------------------------------------------------------
(* TradeDetails.jsx: requests in flight and the data the server returns    *)

\* A getById request in flight.  kind "effect": issued by the fetch effect,
\* `live` is the `mounted` flag of that effect instance.  kind "refresh":
\* issued by handleFormSuccess, which has no such flag.
Fetch(id, kind) == [id |-> id, live |-> TRUE, kind |-> kind]

FetchTypes ==
    {[id |-> id, live |-> l, kind |-> "effect"] : id \in TradeIds, l \in BOOLEAN}
    \cup {Fetch(id, "refresh") : id \in TradeIds}

\* The requests in flight form a bag: fetches[f] is the number of requests
\* of type f that have not completed yet.
NoFetches == [f \in FetchTypes |-> 0]

RECURSIVE BagSum(_, _)
BagSum(b, S) ==
    IF S = {} THEN 0
    ELSE LET f == CHOOSE x \in S : TRUE IN b[f] + BagSum(b, S \ {f})

InFlight(b) == BagSum(b, FetchTypes)
AddFetch(b, f) == [b EXCEPT ![f] = @ + 1]
RemoveFetch(b, f) == [b EXCEPT ![f] = @ - 1]

ViewLegs == {Leg("GOLD", TRUE, Str(100), Null, 10),
             Leg("GOLD", FALSE, Str(100), Str(120), 10)}

ServerTrades(id) == {[trade_id |-> id, legs |-> ls] : ls \in SeqsUpTo(ViewLegs, MaxViewLegs)}

\* Responses of GET /trades/live-prices/ in the life-cycle specification.
ViewQuoteStates == {q \in QuoteStates : q.prices["SILVER"] = Null}

\* Variant: the fetch effect has no cleanup, so no request is ever stale.
CancelEffects_None(b) == b

\* The cleanup of the fetch effect: `mounted = false` in every effect
\* instance whose request is still in flight.
CancelEffects(b) ==
    [f \in FetchTypes |->
        IF f.kind # "effect" THEN b[f]
        ELSE IF f.live THEN 0
        ELSE b[f] + b[[f EXCEPT !.live = TRUE]]]

\* Variant: polls for any loaded trade, open legs or not.
shouldPoll_AnyLeg(t) == Len(t.legs) > 0

shouldPoll(t) == \E i \in 1..Len(t.legs) : t.legs[i].is_open

\* Variant: the polling effect returns no cleanup, so the interval of the
\* previous run is never cleared.
TimersAfterEffect_NoCleanup(n, t, u) == n + (IF shouldPoll(u) THEN 1 ELSE 0)

\* The polling effect re-runs when `trade` changes from t to u: the cleanup
\* of the previous run clears its interval, the new run fetches at once and
\* sets a new interval when u has an open leg.
TimersAfterEffect(n, t, u) ==
    (n - (IF shouldPoll(t) THEN 1 ELSE 0)) + (IF shouldPoll(u) THEN 1 ELSE 0)

PollsAfterEffect(n, u) == IF shouldPoll(u) THEN n + 1 ELSE n

FormIdle ==
    /\ formTrade = NoTrade
    /\ formLegs = << >>
    /\ errors = {}
    /\ formLoading = FALSE
    /\ formError = ""
    /\ pending = [kind |-> "none", trade_id |-> 0, legs |-> << >>]
    /\ successes = 0
    /\ edits = 0

\* The other pages and dialogs, not opened.
NoSnapshot ==
    [snapshot_id |-> 0, name |-> "", description |-> "", snapshot_type |-> "",
     legs |-> << >>]
NoSnapRequest ==
    [kind |-> "none", snapshot_id |-> 0, name |-> "", description |-> "",
     snapshot_type |-> Null, legs |-> << >>]
NoMeta == [snapshotName |-> "", description |-> "", snapshotType |-> ""]
NoPortfolio == [trades |-> << >>, quotes |-> [t \in Tickers |-> Null]]
NoAnalytics ==
    [loaded |-> FALSE, total_open_trades |-> 0, total_closed_trades |-> 0,
     open_trades_pnl |-> Null, closed_trades_pnl |-> Null, overall_pnl |-> Null,
     pnl_over_time |-> << >>]
NoSnapStore == [legs |-> << >>, quotes |-> [t \in Tickers |-> Null]]
NoSnapshotData == [loaded |-> FALSE, legs |-> << >>]

SnapFormIdle ==
    /\ snapOpen = FALSE
    /\ snapshot = NoSnapshot
    /\ snapMeta = NoMeta
    /\ snapLegs = << >>
    /\ snapErrors = {}
    /\ snapLoading = FALSE
    /\ snapError = ""
    /\ snapPending = NoSnapRequest
    /\ snapSuccesses = 0
    /\ snapEdits = 0

AnalysisIdle ==
    /\ portfolio = NoPortfolio
    /\ analytics = NoAnalytics
    /\ anLoading = FALSE
    /\ anError = ""
    /\ anView = << >>

SnapViewIdle ==
    /\ snapStore = NoSnapStore
    /\ snapshotData = NoSnapshotData
    /\ sdLoading = FALSE
    /\ sdError = ""
    /\ sdView = << >>
    /\ sortColumn = "ticker"
    /\ sortDirection = "asc"

\* The params of a getList call made for the list state (page, rows).
getListParams(pg, rows) == [page |-> pg + 1, page_size |-> rows]

\* The trades list right after construction, before its effect has run.
ListIdle ==
    /\ listPage = 0
    /\ rowsPerPage = 10
    /\ totalCount = 0
    /\ listRows = 0
    /\ listLoading = TRUE
    /\ listError = ""
    /\ listFetches = << >>
    /\ lastRequest = getListParams(0, 10)

\* The delete dialog and the snackbar of TradeDetails after construction.
DeleteIdle ==
    /\ deleteDialogOpen = FALSE
    /\ snackbar = [open |-> FALSE, severity |-> "success"]
    /\ deletes = 0
    /\ deleted = FALSE
    /\ navTimers = 0
    /\ location = "details"

PagesIdle == SnapFormIdle /\ AnalysisIdle /\ SnapViewIdle /\ ListIdle /\ DeleteIdle

----------------------------------------------------------------------------
(* Life cycle of the trade details view                                    *)

\* After construction: the fetch effect has run for the route's trade id;
\* the polling effect has run with trade = null and returned early.
Init ==
    /\ mounted = TRUE
    /\ tradeId \in TradeIds
    /\ trade = NoTrade
    /\ livePrices = NoPrices
    /\ loading = TRUE
    /\ error = ""
    /\ formOpen = FALSE
    /\ fetches = AddFetch(NoFetches, Fetch(tradeId, "effect"))
    /\ timers = 0
    /\ polls = 0
    /\ warned = FALSE
    /\ view = Render(NoTrade, NoPrices, TRUE, "")
    /\ FormIdle
    /\ PagesIdle

\* fetchTrade, after `await tradesApi.getById(tradeId)` resolved.
fetchTradeOk(f, data) ==
    /\ f \in FetchTypes
    /\ fetches[f] > 0
    /\ f.kind = "effect"
    /\ data \in ServerTrades(f.id)
    /\ fetches' = RemoveFetch(fetches, f)
    /\ IF f.live
       THEN /\ PollsAfterEffect(polls, data) <= MaxPolls
            /\ trade' = data
            /\ loading' = FALSE
            /\ timers' = TimersAfterEffect(timers, trade, data)
            /\ polls' = PollsAfterEffect(polls, data)
            /\ view' = Render(data, livePrices, FALSE, error)
       ELSE UNCHANGED <<trade, loading, timers, polls, view>>
    /\ UNCHANGED <<mounted, tradeId, livePrices, error, formOpen>>
    /\ UNCHANGED warned
    /\ UNCHANGED formVars
    /\ UNCHANGED pageVars

\* Variant: fetchTrade has no `finally`, so a rejected request leaves the
\* view loading.
fetchTradeErr_NoFinally(f) ==
    /\ f \in FetchTypes
    /\ fetches[f] > 0
    /\ f.kind = "effect"
    /\ fetches' = RemoveFetch(fetches, f)
    /\ IF f.live
       THEN /\ error' = "Failed to load trade details"
            /\ view' = Render(trade, livePrices, loading, "Failed to load trade details")
       ELSE UNCHANGED <<error, view>>
    /\ UNCHANGED <<mounted, tradeId, trade, livePrices, formOpen, timers, polls, loading>>
    /\ UNCHANGED warned
    /\ UNCHANGED formVars
    /\ UNCHANGED pageVars

\* fetchTrade, after the request was rejected.
fetchTradeErr(f) ==
    /\ f \in FetchTypes
    /\ fetches[f] > 0
    /\ f.kind = "effect"
    /\ fetches' = RemoveFetch(fetches, f)
    /\ IF f.live
       THEN /\ error' = "Failed to load trade details"
            /\ loading' = FALSE
            /\ view' = Render(trade, livePrices, FALSE, "Failed to load trade details")
       ELSE UNCHANGED <<error, loading, view>>
    /\ UNCHANGED <<mounted, tradeId, trade, livePrices, formOpen, timers, polls>>
    /\ UNCHANGED warned
    /\ UNCHANGED formVars
    /\ UNCHANGED pageVars

\* The route changes to another trade id: the cleanup of the fetch effect
\* runs, then the effect runs again for the new id.
RouteChange(id) ==
    /\ mounted
    /\ id \in TradeIds \ {tradeId}
    /\ InFlight(fetches) < MaxFetches
    /\ tradeId' = id
    /\ loading' = TRUE
    /\ error' = ""
    /\ fetches' = AddFetch(CancelEffects(fetches), Fetch(id, "effect"))
    /\ view' = Render(trade, livePrices, TRUE, "")
    /\ UNCHANGED <<mounted, trade, livePrices, formOpen, timers, polls>>
    /\ UNCHANGED warned
    /\ UNCHANGED formVars
    /\ UNCHANGED pageVars

handleEditClick ==
    /\ mounted
    /\ view.branch = "main"
    /\ ~formOpen
    /\ formOpen' = TRUE
    /\ UNCHANGED <<mounted, tradeId, trade, livePrices, loading, error, fetches,
                   timers, polls, view>>
    /\ UNCHANGED warned
    /\ UNCHANGED formVars
    /\ UNCHANGED pageVars

\* handleFormSuccess up to its await: the dialog closes and the trade is
\* requested again.
handleFormSuccess ==
    /\ mounted
    /\ formOpen
    /\ InFlight(fetches) < MaxFetches
    /\ formOpen' = FALSE
    /\ fetches' = AddFetch(fetches, Fetch(tradeId, "refresh"))
    /\ UNCHANGED <<mounted, tradeId, trade, livePrices, loading, error, timers,
                   polls, view>>
    /\ UNCHANGED warned
    /\ UNCHANGED formVars
    /\ UNCHANGED pageVars

\* handleFormSuccess, after `await tradesApi.getById(tradeId)` resolved:
\* setTrade(data).  A state update of an unmounted component is dropped.
refreshOk(f, data) ==
    /\ f \in FetchTypes
    /\ fetches[f] > 0
    /\ f.kind = "refresh"
    /\ data \in ServerTrades(f.id)
    /\ fetches' = RemoveFetch(fetches, f)
    /\ IF mounted
       THEN /\ PollsAfterEffect(polls, data) <= MaxPolls
            /\ trade' = data
            /\ timers' = TimersAfterEffect(timers, trade, data)
            /\ polls' = PollsAfterEffect(polls, data)
            /\ view' = Render(data, livePrices, loading, error)
       ELSE UNCHANGED <<trade, timers, polls, view>>
    /\ UNCHANGED <<mounted, tradeId, livePrices, loading, error, formOpen>>
    /\ UNCHANGED warned
    /\ UNCHANGED formVars
    /\ UNCHANGED pageVars

\* handleFormSuccess, after the refresh was rejected: console.error only.
refreshErr(f) ==
    /\ f \in FetchTypes
    /\ fetches[f] > 0
    /\ f.kind = "refresh"
    /\ fetches' = RemoveFetch(fetches, f)
    /\ UNCHANGED <<mounted, tradeId, trade, livePrices, loading, error, formOpen,
                   timers, polls, view>>
    /\ UNCHANGED warned
    /\ UNCHANGED formVars
    /\ UNCHANGED pageVars

\* The interval set by the polling effect fires: fetchLivePrices().
pollTick ==
    /\ timers > 0
    /\ polls < MaxPolls
    /\ polls' = polls + 1
    /\ UNCHANGED <<mounted, tradeId, trade, livePrices, loading, error, formOpen,
                   fetches, timers, view>>
    /\ UNCHANGED warned
    /\ UNCHANGED formVars
    /\ UNCHANGED pageVars

\* fetchLivePrices, after `await tradesApi.getLivePrices()` resolved:
\* setLivePrices(pricesData), whatever the trade is by then.
fetchLivePricesOk(q) ==
    /\ polls > 0
    /\ q \in ViewQuoteStates
    /\ polls' = polls - 1
    /\ IF mounted
       THEN /\ livePrices' = q
            /\ view' = Render(trade, q, loading, error)
       ELSE UNCHANGED <<livePrices, view>>
    /\ UNCHANGED <<mounted, tradeId, trade, loading, error, formOpen, fetches, timers>>
    /\ UNCHANGED warned
    /\ UNCHANGED formVars
    /\ UNCHANGED pageVars

\* Variant: the catch block drops the quotes it has.
fetchLivePricesErr_Reset ==
    /\ polls > 0
    /\ polls' = polls - 1
    /\ warned' = TRUE
    /\ livePrices' = IF mounted THEN NoPrices ELSE livePrices
    /\ view' = IF mounted THEN Render(trade, NoPrices, loading, error) ELSE view
    /\ UNCHANGED <<mounted, tradeId, trade, loading, error, formOpen, fetches, timers>>
    /\ UNCHANGED formVars
    /\ UNCHANGED pageVars

\* fetchLivePrices, after the request was rejected: console.warn only.
fetchLivePricesErr ==
    /\ polls > 0
    /\ polls' = polls - 1
    /\ warned' = TRUE
    /\ UNCHANGED <<mounted, tradeId, trade, livePrices, loading, error, formOpen,
                   fetches, timers, view>>
    /\ UNCHANGED formVars
    /\ UNCHANGED pageVars

\* The view is unmounted: both effect cleanups run.
Unmount ==
    /\ mounted
    /\ mounted' = FALSE
    /\ fetches' = CancelEffects(fetches)
    /\ timers' = timers - (IF shouldPoll(trade) THEN 1 ELSE 0)
    /\ UNCHANGED <<tradeId, trade, livePrices, loading, error, formOpen, polls, view>>
    /\ UNCHANGED warned
    /\ UNCHANGED formVars
    /\ UNCHANGED pageVars

Next ==
    \/ \E f \in FetchTypes : \E data \in ServerTrades(f.id) : fetchTradeOk(f, data)
    \/ \E f \in FetchTypes : fetchTradeErr(f)
    \/ \E id \in TradeIds : RouteChange(id)
    \/ handleEditClick
    \/ handleFormSuccess
    \/ \E f \in FetchTypes : \E data \in ServerTrades(f.id) : refreshOk(f, data)
    \/ \E f \in FetchTypes : refreshErr(f)
    \/ pollTick
    \/ \E q \in ViewQuoteStates : fetchLivePricesOk(q)
    \/ fetchLivePricesErr
    \/ Unmount

Spec == Init /\ [][Next]_vars

\* The request of the current instance of the fetch effect is answered:
\* resolved or rejected.
LoadCompletes ==
    \E f \in FetchTypes :
        /\ f.kind = "effect" /\ f.live
        /\ \/ fetchTradeErr(f)
           \/ \E data \in ServerTrades(f.id) : fetchTradeOk(f, data)

\* The life cycle under the assumptions of a terminating load: the request
\* of the current load is eventually answered, and the user does not change
\* the route for ever.
SpecLive ==
    /\ Spec
    /\ WF_vars(LoadCompletes)
    /\ <>[][\A id \in TradeIds : ~RouteChange(id)]_vars

----------------------------------------------------------------------------
(* The render-time computation on its own: the component holds a trade and *)
(* a quote state drawn from the wide sets, and re-renders when the quote   *)
(* state is set.                                                           *)

InitCalc ==
    /\ mounted = TRUE
    /\ tradeId = 1
    /\ trade \in CalcTrades
    /\ livePrices \in {NoPrices} \cup QuoteStates
    /\ loading = FALSE
    /\ error = ""
    /\ formOpen = FALSE
    /\ fetches = NoFetches
    /\ timers = 0
    /\ polls = 0
    /\ warned = FALSE
    /\ view = Render(trade, livePrices, FALSE, "")
    /\ FormIdle
    /\ PagesIdle

setLivePrices(q) ==
    /\ q \in QuoteStates
    /\ livePrices' = q
    /\ view' = Render(trade, q, loading, error)
    /\ UNCHANGED <<mounted, tradeId, trade, loading, error, formOpen, fetches, timers, polls>>
    /\ UNCHANGED warned
    /\ UNCHANGED formVars
    /\ UNCHANGED pageVars

NextCalc == \E q \in QuoteStates : setLivePrices(q)

SpecCalc == InitCalc /\ [][NextCalc]_vars

----------------------------------------------------------------------------
(* TradeForm.jsx: values of the form fields                                *)

NaN == [k |-> "nan", v |-> 0]
Text(s) == [k |-> "text", v |-> s]

EntryDate == "2025-01-15"
ExitDate == "2025-02-15"

\* Number.prototype.toString of the numbers that occur.
NumStr(n) ==
    CASE n = 0 -> "0" [] n = 10 -> "10" [] n = -10 -> "-10"
      [] n = 100 -> "100" [] n = 120 -> "120"

\* The decimal string the API sends for the amount n.
DecStr(n) ==
    CASE n = 0 -> "0.00" [] n = 100 -> "100.00" [] n = 120 -> "120.00"

\* x?.toString() || ''
toStringOrEmpty(x) ==
    CASE x.k = "null" -> ""
      [] x.k = "num" -> NumStr(x.v)
      [] x.k = "str" -> DecStr(x.v)
      [] x.k = "text" -> x.v

\* parseFloat of the text of a field: NaN for the empty text.
parseFloatText(s) ==
    CASE s = "" -> NaN
      [] s \in {"0", "0.00"} -> Num(0)
      [] s = "-5" -> Num(-5)
      [] s = "10" -> Num(10)
      [] s = "-10" -> Num(-10)
      [] s \in {"100", "100.00"} -> Num(100)
      [] s \in {"120", "120.00"} -> Num(120)

\* parseInt of the text of a field: the integer part, NaN for the empty text
\* and for a text that does not start with a digit after the sign.
parseInt(s) ==
    CASE s = "" -> NaN
      [] s = ".5" -> NaN
      [] s \in {"0", "0.00"} -> Num(0)
      [] s = "-5" -> Num(-5)
      [] s = "10" -> Num(10)
      [] s = "-10" -> Num(-10)
      [] s \in {"100", "100.00"} -> Num(100)
      [] s \in {"120", "120.00"} -> Num(120)

\* String.prototype.trim and toUpperCase of the texts that occur.
trim(s) == CASE s = " " -> "" [] s = " GOLD " -> "GOLD" [] OTHER -> s
toUpperCase(s) == CASE s = "gold" -> "GOLD" [] OTHER -> s

\* Comparisons with a number that may be NaN: every comparison with NaN is
\* false.
LeqZero(x) == x.k = "num" /\ x.v <= 0
EqZero(x) == x.k = "num" /\ x.v = 0

Fields == {"name", "ticker", "is_open", "entry_date", "exit_date",
           "entry_price", "exit_price", "quantity"}

\* What the user can put into a field.
FieldValues(field) ==
    CASE field = "name" -> {"", " ", "Gold"}
      [] field = "ticker" -> {"", "GOLD"}
      [] field = "is_open" -> BOOLEAN
      [] field = "entry_date" -> {"", EntryDate}
      [] field = "exit_date" -> {"", ExitDate}
      [] field = "entry_price" -> {"", "0", "-5", "100"}
      [] field = "exit_price" -> {"", "0", "120"}
      [] field = "quantity" -> {"", "0", "10", ".5"}

getEmptyLeg ==
    [id |-> 0, name |-> "", ticker |-> "", is_open |-> TRUE, entry_date |-> "",
     exit_date |-> "", entry_price |-> "", exit_price |-> "", quantity |-> ""]

\* A first leg as the user has typed it in: an open position.
TypedLeg ==
    [id |-> 0, name |-> "Gold", ticker |-> "GOLD", is_open |-> TRUE,
     entry_date |-> EntryDate, exit_date |-> "", entry_price |-> "100",
     exit_price |-> "", quantity |-> "10"]

\* Legs of a stored trade, as GET /trades/{id}/ returns them.
StoredOpen(id) ==
    [id |-> id, name |-> "Gold", ticker |-> "GOLD", is_open |-> TRUE,
     entry_date |-> EntryDate, exit_date |-> Null, entry_price |-> Str(100),
     exit_price |-> Null, quantity |-> 10]

StoredClosed(id) ==
    [id |-> id, name |-> "Gold", ticker |-> "GOLD", is_open |-> FALSE,
     entry_date |-> EntryDate, exit_date |-> Text(ExitDate), entry_price |-> Str(100),
     exit_price |-> Str(120), quantity |-> -10]

\* The stored trades the form is opened on: an open leg, then alternately a
\* closed and an open one.
StoredLegs(n) == [i \in 1..n |-> IF i % 2 = 1 THEN StoredOpen(i) ELSE StoredClosed(i)]

FormTrades == {[trade_id |-> 1, legs |-> StoredLegs(n)] : n \in 1..MaxFormLegs}

NoRequest == [kind |-> "none", trade_id |-> 0, legs |-> << >>]

----------------------------------------------------------------------------
(* TradeForm.jsx: the form                                                 *)

isEditing == formTrade # NoTrade

\* Variant: `leg.is_open || true`, so every stored leg is shown as open.
InitLegs_OpenDefault(t) ==
    IF t # NoTrade
    THEN [i \in 1..Len(t.legs) |->
            LET leg == t.legs[i]
            IN  [id |-> leg.id,
                 name |-> leg.name,
                 ticker |-> leg.ticker,
                 is_open |-> TRUE,
                 entry_date |-> leg.entry_date,
                 exit_date |-> toStringOrEmpty(leg.exit_date),
                 entry_price |-> toStringOrEmpty(leg.entry_price),
                 exit_price |-> toStringOrEmpty(leg.exit_price),
                 quantity |-> toStringOrEmpty(Num(leg.quantity))]]
    ELSE <<getEmptyLeg>>

\* The initialisation effect, run when `trade` or `open` changes.
InitLegs(t) ==
    IF t # NoTrade
    THEN [i \in 1..Len(t.legs) |->
            LET leg == t.legs[i]
            IN  [id |-> leg.id,
                 name |-> leg.name,
                 ticker |-> leg.ticker,
                 is_open |-> leg.is_open,
                 entry_date |-> leg.entry_date,
                 exit_date |-> toStringOrEmpty(leg.exit_date),
                 entry_price |-> toStringOrEmpty(leg.entry_price),
                 exit_price |-> toStringOrEmpty(leg.exit_price),
                 quantity |-> toStringOrEmpty(Num(leg.quantity))]]
    ELSE <<getEmptyLeg>>

\* Variant: the closed-position checks are skipped.
legErrors_NoExitCheck(leg) ==
    {f \in Fields :
        \/ f = "name" /\ trim(leg.name) = ""
        \/ f = "ticker" /\ trim(leg.ticker) = ""
        \/ f = "entry_date" /\ leg.entry_date = ""
        \/ f = "entry_price" /\ (leg.entry_price = "" \/ LeqZero(parseFloatText(leg.entry_price)))
        \/ f = "quantity" /\ (leg.quantity = "" \/ EqZero(parseInt(leg.quantity)))}

\* The fields of one leg that validate() reports.
legErrors(leg) ==
    {f \in Fields :
        \/ f = "name" /\ trim(leg.name) = ""
        \/ f = "ticker" /\ trim(leg.ticker) = ""
        \/ f = "entry_date" /\ leg.entry_date = ""
        \/ f = "entry_price" /\ (leg.entry_price = "" \/ LeqZero(parseFloatText(leg.entry_price)))
        \/ f = "quantity" /\ (leg.quantity = "" \/ EqZero(parseInt(leg.quantity)))
        \/ f = "exit_date" /\ ~leg.is_open /\ leg.exit_date = ""
        \/ f = "exit_price" /\ ~leg.is_open
             /\ (leg.exit_price = "" \/ LeqZero(parseFloatText(leg.exit_price)))}

\* validate(): the keys `${index}.${field}` of newErrors.
validate(legs) == {<<i, f>> : i \in 1..Len(legs), f \in Fields} \cap
                  {k \in (1..Len(legs)) \X Fields : k[2] \in legErrors(legs[k[1]])}

\* Variant: the exit fields are sent as they stand in the form.
legsData_KeepExit(legs) ==
    [i \in 1..Len(legs) |->
        LET leg == legs[i]
        IN  [id |-> leg.id,
             name |-> trim(leg.name),
             ticker |-> trim(toUpperCase(leg.ticker)),
             is_open |-> leg.is_open,
             entry_date |-> leg.entry_date,
             exit_date |-> IF leg.exit_date # "" THEN Text(leg.exit_date) ELSE Null,
             entry_price |-> parseFloatText(leg.entry_price),
             exit_price |-> IF leg.exit_price # "" THEN parseFloatText(leg.exit_price)
                            ELSE Null,
             quantity |-> parseInt(leg.quantity)]]

\* legsData of handleSubmit.
legsData(legs) ==
    [i \in 1..Len(legs) |->
        LET leg == legs[i]
        IN  [id |-> leg.id,
             name |-> trim(leg.name),
             ticker |-> trim(toUpperCase(leg.ticker)),
             is_open |-> leg.is_open,
             entry_date |-> leg.entry_date,
             exit_date |-> IF leg.is_open THEN Null
                           ELSE IF leg.exit_date # "" THEN Text(leg.exit_date) ELSE Null,
             entry_price |-> parseFloatText(leg.entry_price),
             exit_price |-> IF leg.is_open THEN Null
                            ELSE IF leg.exit_price # "" THEN parseFloatText(leg.exit_price)
                            ELSE Null,
             quantity |-> parseInt(leg.quantity)]]

ViewIdle ==
    /\ mounted = TRUE
    /\ tradeId = 1
    /\ trade = NoTrade
    /\ livePrices = NoPrices
    /\ loading = FALSE
    /\ error = ""
    /\ fetches = NoFetches
    /\ timers = 0
    /\ polls = 0
    /\ warned = FALSE
    /\ view = Render(NoTrade, NoPrices, FALSE, "")

\* The dialog is open: on a stored trade (editing), or on no trade with the
\* empty first leg or with a first leg typed in.
InitForm ==
    /\ ViewIdle
    /\ formOpen = TRUE
    /\ formTrade \in {NoTrade} \cup FormTrades
    /\ formLegs \in IF formTrade = NoTrade
                    THEN {<<getEmptyLeg>>, <<TypedLeg>>}
                    ELSE {InitLegs(formTrade)}
    /\ errors = {}
    /\ formLoading = FALSE
    /\ formError = ""
    /\ pending = NoRequest
    /\ successes = 0
    /\ edits = 0
    /\ PagesIdle

\* Variant: a change of one field drops every recorded error.
handleLegChange_ClearAll(index, field, value) ==
    /\ formOpen
    /\ edits < MaxEdits
    /\ index \in 1..Len(formLegs)
    /\ field \in Fields
    /\ value \in FieldValues(field)
    /\ field \in {"exit_date", "exit_price"} => ~formLegs[index].is_open
    /\ formLegs' = [formLegs EXCEPT ![index] = [@ EXCEPT ![field] = value]]
    /\ errors' = {}
    /\ edits' = edits + 1
    /\ UNCHANGED <<formTrade, formLoading, formError, pending, successes>>
    /\ UNCHANGED viewVars
    /\ UNCHANGED pageVars

\* handleLegChange: setLegs replaces one field of one leg, setErrors drops
\* the key `${index}.${field}`.
handleLegChange(index, field, value) ==
    /\ formOpen
    /\ edits < MaxEdits
    /\ index \in 1..Len(formLegs)
    /\ field \in Fields
    /\ value \in FieldValues(field)
    /\ field \in {"exit_date", "exit_price"} => ~formLegs[index].is_open
    /\ formLegs' = [formLegs EXCEPT ![index] = [@ EXCEPT ![field] = value]]
    /\ errors' = errors \ {<<index, field>>}
    /\ edits' = edits + 1
    /\ UNCHANGED <<formTrade, formLoading, formError, pending, successes>>
    /\ UNCHANGED viewVars
    /\ UNCHANGED pageVars

handleAddLeg ==
    /\ formOpen
    /\ edits < MaxEdits
    /\ Len(formLegs) < MaxFormLegs
    /\ formLegs' = Append(formLegs,
                          [getEmptyLeg EXCEPT !.name =
                              IF Len(formLegs) > 0 THEN formLegs[1].name ELSE ""])
    /\ edits' = edits + 1
    /\ UNCHANGED <<formTrade, errors, formLoading, formError, pending, successes>>
    /\ UNCHANGED viewVars
    /\ UNCHANGED pageVars

\* Variant: the last remaining leg can be removed too.
handleRemoveLeg_NoGuard(index) ==
    /\ formOpen
    /\ edits < MaxEdits
    /\ index \in 1..Len(formLegs)
    /\ formLegs' = [j \in 1..(Len(formLegs) - 1) |->
                        IF j < index THEN formLegs[j] ELSE formLegs[j + 1]]
    /\ edits' = edits + 1
    /\ UNCHANGED <<formTrade, errors, formLoading, formError, pending, successes>>
    /\ UNCHANGED viewVars
    /\ UNCHANGED pageVars

handleRemoveLeg(index) ==
    /\ formOpen
    /\ edits < MaxEdits
    /\ index \in 1..Len(formLegs)
    /\ formLegs' = IF Len(formLegs) <= 1 THEN formLegs
                   ELSE [j \in 1..(Len(formLegs) - 1) |->
                            IF j < index THEN formLegs[j] ELSE formLegs[j + 1]]
    /\ edits' = edits + 1
    /\ UNCHANGED <<formTrade, errors, formLoading, formError, pending, successes>>
    /\ UNCHANGED viewVars
    /\ UNCHANGED pageVars

\* handleSubmit up to its await.  The submit button is disabled while
\* `loading`.
handleSubmit ==
    /\ formOpen
    /\ ~formLoading
    /\ successes < MaxSuccesses
    /\ errors' = validate(formLegs)
    /\ IF validate(formLegs) # {}
       THEN UNCHANGED <<formLoading, formError, pending>>
       ELSE /\ pending = NoRequest
            /\ formLoading' = TRUE
            /\ formError' = ""
            /\ pending' = [kind |-> IF isEditing THEN "update" ELSE "create",
                           trade_id |-> formTrade.trade_id,
                           legs |-> legsData(formLegs)]
    /\ UNCHANGED <<formTrade, formLegs, successes, edits>>
    /\ UNCHANGED viewVars
    /\ UNCHANGED pageVars

\* handleSubmit, after the request resolved: onSuccess(message), and the
\* parent closes the dialog, which re-runs the initialisation effect.
submitOk ==
    /\ pending # NoRequest
    /\ pending' = NoRequest
    /\ successes' = successes + 1
    /\ formLoading' = FALSE
    /\ formOpen' = FALSE
    /\ formLegs' = InitLegs(formTrade)
    /\ formError' = ""
    /\ errors' = {}
    /\ UNCHANGED <<formTrade, edits>>
    /\ UNCHANGED <<mounted, tradeId, trade, livePrices, loading, error, fetches,
                   timers, polls, warned, view>>
    /\ UNCHANGED pageVars

\* Variant: setLoading(false) only on the success path.
submitErr_NoFinally ==
    /\ pending # NoRequest
    /\ pending' = NoRequest
    /\ formError' = "Failed to save trade"
    /\ UNCHANGED <<formTrade, formLegs, errors, successes, edits, formLoading>>
    /\ UNCHANGED viewVars
    /\ UNCHANGED pageVars

\* handleSubmit, after the request was rejected.
submitErr ==
    /\ pending # NoRequest
    /\ pending' = NoRequest
    /\ formError' = "Failed to save trade"
    /\ formLoading' = FALSE
    /\ UNCHANGED <<formTrade, formLegs, errors, successes, edits>>
    /\ UNCHANGED viewVars
    /\ UNCHANGED pageVars

\* onClose (the close icon, the backdrop, Escape): the parent closes the
\* dialog, which re-runs the initialisation effect.
closeForm ==
    /\ formOpen
    /\ formOpen' = FALSE
    /\ formLegs' = InitLegs(formTrade)
    /\ formError' = ""
    /\ errors' = {}
    /\ UNCHANGED <<formTrade, formLoading, pending, successes, edits>>
    /\ UNCHANGED <<mounted, tradeId, trade, livePrices, loading, error, fetches,
                   timers, polls, warned, view>>
    /\ UNCHANGED pageVars

\* The parent opens the dialog again.
openForm ==
    /\ ~formOpen
    /\ formOpen' = TRUE
    /\ formLegs' = InitLegs(formTrade)
    /\ formError' = ""
    /\ errors' = {}
    /\ UNCHANGED <<formTrade, formLoading, pending, successes, edits>>
    /\ UNCHANGED <<mounted, tradeId, trade, livePrices, loading, error, fetches,
                   timers, polls, warned, view>>
    /\ UNCHANGED pageVars

NextForm ==
    \/ \E index \in 1..MaxFormLegs, field \in Fields :
          \E value \in FieldValues(field) : handleLegChange(index, field, value)
    \/ handleAddLeg
    \/ \E index \in 1..MaxFormLegs : handleRemoveLeg(index)
    \/ handleSubmit
    \/ submitOk
    \/ submitErr
    \/ closeForm
    \/ openForm

SpecForm == InitForm /\ [][NextForm]_vars

----------------------------------------------------------------------------
(* SnapshotForm (services/api.js): the snapshot form                       *)

SnapFields == {"ticker", "date", "price", "quantity"}

\* What the user can put into a field of a snapshot leg.
SnapFieldValues(field) ==
    CASE field = "ticker" -> {"", "GOLD"}
      [] field = "date" -> {"", EntryDate}
      [] field = "price" -> {"", "0", "-5", "100"}
      [] field = "quantity" -> {"", "0", "10", ".5"}

MetaFields == {"snapshotName", "description", "snapshotType"}

MetaValues(field) ==
    CASE field = "snapshotName" -> {"", " ", "Gold"}
      [] field = "description" -> {"", "note"}
      [] field = "snapshotType" -> {"", "GoldM"}

getEmptySnapshotLeg == [id |-> 0, ticker |-> "", date |-> "", price |-> "", quantity |-> ""]

\* A leg as the user has typed it in.
TypedSnapshotLeg ==
    [id |-> 0, ticker |-> "GOLD", date |-> EntryDate, price |-> "100", quantity |-> "10"]

\* A leg of a stored snapshot, as GET /snapshots/{id}/ returns it.
StoredSnapshotLeg(id) ==
    [id |-> id, ticker |-> "GOLD", date |-> EntryDate, price |-> Str(100),
     quantity |-> IF id % 2 = 1 THEN 10 ELSE -10]

StoredSnapshots ==
    {[snapshot_id |-> 1, name |-> "Gold", description |-> "note",
      snapshot_type |-> "GoldM", legs |-> [i \in 1..n |-> StoredSnapshotLeg(i)]] :
        n \in 1..MaxSnapLegs}

snapIsEditing == snapshot # NoSnapshot

\* The initialisation effect, run when `snapshot` or `open` changes.
InitSnapMeta(sn) ==
    IF sn # NoSnapshot
    THEN [snapshotName |-> sn.name, description |-> sn.description,
          snapshotType |-> sn.snapshot_type]
    ELSE NoMeta

InitSnapLegs(sn) ==
    IF sn # NoSnapshot /\ Len(sn.legs) > 0
    THEN [i \in 1..Len(sn.legs) |->
            LET leg == sn.legs[i]
            IN  [id |-> leg.id,
                 ticker |-> leg.ticker,
                 date |-> leg.date,
                 price |-> toStringOrEmpty(leg.price),
                 quantity |-> toStringOrEmpty(Num(leg.quantity))]]
    ELSE << >>

\* Variant: the price of a leg is not checked.
snapLegErrors_NoPriceCheck(leg) ==
    {f \in SnapFields :
        \/ f = "ticker" /\ trim(leg.ticker) = ""
        \/ f = "date" /\ leg.date = ""
        \/ f = "quantity" /\ (leg.quantity = "" \/ EqZero(parseInt(leg.quantity)))}

\* The fields of one leg that validate() reports.
snapLegErrors(leg) ==
    {f \in SnapFields :
        \/ f = "ticker" /\ trim(leg.ticker) = ""
        \/ f = "date" /\ leg.date = ""
        \/ f = "price" /\ (leg.price = "" \/ LeqZero(parseFloatText(leg.price)))
        \/ f = "quantity" /\ (leg.quantity = "" \/ EqZero(parseInt(leg.quantity)))}

\* validate(): the keys of newErrors, <<0, "snapshotName">> for the name and
\* <<index, field>> for `${index}.${field}`.
snapValidate(meta, legs) ==
    (IF trim(meta.snapshotName) = "" THEN {<<0, "snapshotName">>} ELSE {})
    \cup {k \in (1..Len(legs)) \X SnapFields : k[2] \in snapLegErrors(legs[k[1]])}

\* legsData of handleSubmit.
snapLegsData(legs) ==
    [i \in 1..Len(legs) |->
        LET leg == legs[i]
        IN  [id |-> leg.id,
             ticker |-> trim(toUpperCase(leg.ticker)),
             date |-> leg.date,
             price |-> parseFloatText(leg.price),
             quantity |-> parseInt(leg.quantity)]]

\* The request handleSubmit issues.
snapPayload(kind, sn, meta, legs) ==
    [kind |-> kind,
     snapshot_id |-> sn.snapshot_id,
     name |-> trim(meta.snapshotName),
     description |-> trim(meta.description),
     snapshot_type |-> IF meta.snapshotType # "" THEN Text(meta.snapshotType) ELSE Null,
     legs |-> snapLegsData(legs)]

\* The dialog is open: on a stored snapshot (editing), or on no snapshot
\* with nothing typed in, or with a name and possibly a first leg typed in.
InitSnapForm ==
    /\ ViewIdle
    /\ formOpen = FALSE
    /\ FormIdle
    /\ AnalysisIdle
    /\ SnapViewIdle
    /\ ListIdle
    /\ DeleteIdle
    /\ snapOpen = TRUE
    /\ snapshot \in {NoSnapshot} \cup StoredSnapshots
    /\ snapMeta \in IF snapshot = NoSnapshot
                    THEN {NoMeta, [NoMeta EXCEPT !.snapshotName = "Gold"]}
                    ELSE {InitSnapMeta(snapshot)}
    /\ snapLegs \in IF snapshot = NoSnapshot
                    THEN {<< >>, <<TypedSnapshotLeg>>}
                    ELSE {InitSnapLegs(snapshot)}
    /\ snapErrors = {}
    /\ snapLoading = FALSE
    /\ snapError = ""
    /\ snapPending = NoSnapRequest
    /\ snapSuccesses = 0
    /\ snapEdits = 0

\* The onChange handlers of the name, description and type inputs.
snapSetMeta(field, value) ==
    /\ snapOpen
    /\ snapEdits < MaxSnapEdits
    /\ field \in MetaFields
    /\ value \in MetaValues(field)
    /\ snapMeta' = [snapMeta EXCEPT ![field] = value]
    /\ snapErrors' = IF field = "snapshotName" THEN snapErrors \ {<<0, "snapshotName">>}
                     ELSE snapErrors
    /\ snapEdits' = snapEdits + 1
    /\ UNCHANGED <<snapOpen, snapshot, snapLegs, snapLoading, snapError, snapPending,
                   snapSuccesses>>
    /\ UNCHANGED <<viewVars, formVars, analysisVars, snapViewVars, listVars, deleteVars>>

snapHandleLegChange(index, field, value) ==
    /\ snapOpen
    /\ snapEdits < MaxSnapEdits
    /\ index \in 1..Len(snapLegs)
    /\ field \in SnapFields
    /\ value \in SnapFieldValues(field)
    /\ snapLegs' = [snapLegs EXCEPT ![index] = [@ EXCEPT ![field] = value]]
    /\ snapErrors' = snapErrors \ {<<index, field>>}
    /\ snapEdits' = snapEdits + 1
    /\ UNCHANGED <<snapOpen, snapshot, snapMeta, snapLoading, snapError, snapPending,
                   snapSuccesses>>
    /\ UNCHANGED <<viewVars, formVars, analysisVars, snapViewVars, listVars, deleteVars>>

snapHandleAddLeg ==
    /\ snapOpen
    /\ snapEdits < MaxSnapEdits
    /\ Len(snapLegs) < MaxSnapLegs
    /\ snapLegs' = Append(snapLegs, getEmptySnapshotLeg)
    /\ snapEdits' = snapEdits + 1
    /\ UNCHANGED <<snapOpen, snapshot, snapMeta, snapErrors, snapLoading, snapError,
                   snapPending, snapSuccesses>>
    /\ UNCHANGED <<viewVars, formVars, analysisVars, snapViewVars, listVars, deleteVars>>

snapHandleRemoveLeg(index) ==
    /\ snapOpen
    /\ snapEdits < MaxSnapEdits
    /\ index \in 1..Len(snapLegs)
    /\ snapLegs' = [j \in 1..(Len(snapLegs) - 1) |->
                        IF j < index THEN snapLegs[j] ELSE snapLegs[j + 1]]
    /\ snapEdits' = snapEdits + 1
    /\ UNCHANGED <<snapOpen, snapshot, snapMeta, snapErrors, snapLoading, snapError,
                   snapPending, snapSuccesses>>
    /\ UNCHANGED <<viewVars, formVars, analysisVars, snapViewVars, listVars, deleteVars>>

\* handleSubmit up to its await.  The submit button is disabled while
\* `loading`.
snapHandleSubmit ==
    /\ snapOpen
    /\ ~snapLoading
    /\ snapSuccesses < MaxSuccesses
    /\ snapErrors' = snapValidate(snapMeta, snapLegs)
    /\ IF snapValidate(snapMeta, snapLegs) # {}
       THEN UNCHANGED <<snapLoading, snapError, snapPending>>
       ELSE /\ snapPending = NoSnapRequest
            /\ snapLoading' = TRUE
            /\ snapError' = ""
            /\ snapPending' = snapPayload(IF snapIsEditing THEN "update" ELSE "create",
                                          snapshot, snapMeta, snapLegs)
    /\ UNCHANGED <<snapOpen, snapshot, snapMeta, snapLegs, snapSuccesses, snapEdits>>
    /\ UNCHANGED <<viewVars, formVars, analysisVars, snapViewVars, listVars, deleteVars>>

\* The parent (Snapshots page) gives the form new props; the
\* initialisation effect runs again.
snapProps(open, sn) ==
    /\ snapOpen' = open
    /\ snapshot' = sn
    /\ snapMeta' = InitSnapMeta(sn)
    /\ snapLegs' = InitSnapLegs(sn)
    /\ snapError' = ""
    /\ snapErrors' = {}

\* handleSubmit, after the request resolved: onSuccess(message), the parent's
\* handleFormSuccess closes the dialog (handleFormClose).
snapSubmitOk ==
    /\ snapPending # NoSnapRequest
    /\ snapPending' = NoSnapRequest
    /\ snapSuccesses' = snapSuccesses + 1
    /\ snapLoading' = FALSE
    /\ snapProps(FALSE, NoSnapshot)
    /\ UNCHANGED snapEdits
    /\ UNCHANGED <<viewVars, formVars, analysisVars, snapViewVars, listVars, deleteVars>>

\* handleSubmit, after the request was rejected.
snapSubmitErr ==
    /\ snapPending # NoSnapRequest
    /\ snapPending' = NoSnapRequest
    /\ snapError' = "Failed to save snapshot"
    /\ snapLoading' = FALSE
    /\ UNCHANGED <<snapOpen, snapshot, snapMeta, snapLegs, snapErrors, snapSuccesses,
                   snapEdits>>
    /\ UNCHANGED <<viewVars, formVars, analysisVars, snapViewVars, listVars, deleteVars>>

\* onClose: handleFormClose of the parent.
snapCloseForm ==
    /\ snapOpen
    /\ snapProps(FALSE, NoSnapshot)
    /\ UNCHANGED <<snapLoading, snapPending, snapSuccesses, snapEdits>>
    /\ UNCHANGED <<viewVars, formVars, analysisVars, snapViewVars, listVars, deleteVars>>

\* handleAddClick of the parent, or handleEditClick after the stored
\* snapshot was fetched.
snapOpenForm(sn) ==
    /\ ~snapOpen
    /\ sn \in {NoSnapshot} \cup StoredSnapshots
    /\ snapProps(TRUE, sn)
    /\ UNCHANGED <<snapLoading, snapPending, snapSuccesses, snapEdits>>
    /\ UNCHANGED <<viewVars, formVars, analysisVars, snapViewVars, listVars, deleteVars>>

NextSnapForm ==
    \/ \E field \in MetaFields : \E value \in MetaValues(field) : snapSetMeta(field, value)
    \/ \E index \in 1..MaxSnapLegs, field \in SnapFields :
          \E value \in SnapFieldValues(field) : snapHandleLegChange(index, field, value)
    \/ snapHandleAddLeg
    \/ \E index \in 1..MaxSnapLegs : snapHandleRemoveLeg(index)
    \/ snapHandleSubmit
    \/ snapSubmitOk
    \/ snapSubmitErr
    \/ snapCloseForm
    \/ \E sn \in {NoSnapshot} \cup StoredSnapshots : snapOpenForm(sn)

SpecSnapForm == InitSnapForm /\ [][NextSnapForm]_vars

----------------------------------------------------------------------------
(* Analysis.jsx: the portfolio analysis page, and the summary the backend  *)
(* serves at /analytics/summary/ (specification sections 4.1 to 4.3)       *)

\* The stored legs of the portfolio: prices as numbers, the exit date of a
\* closed leg.
AnLeg(open, entry, exit, qty, date) ==
    [ticker |-> "GOLD", is_open |-> open, entry_price |-> entry, exit_price |-> exit,
     quantity |-> qty, exit_date |-> date]

\* An open leg, and closed legs with a realized PnL of +100, -30, -50 (a
\* short leg) and +100 in a later month.
AnLegs ==
    [open |-> AnLeg(TRUE, 100, 0, 10, ""),
     gain |-> AnLeg(FALSE, 100, 110, 10, "2025-01-20"),
     loss |-> AnLeg(FALSE, 100, 97, 10, "2025-01-28"),
     short |-> AnLeg(FALSE, 100, 105, -10, "2025-02-15"),
     late |-> AnLeg(FALSE, 100, 110, 10, "2025-03-05")]

\* The stored trades: open, open with a closed leg, and closed ones.
AnTrades ==
    {<<AnLegs.open>>, <<AnLegs.open, AnLegs.gain>>, <<AnLegs.short>>,
     <<AnLegs.gain, AnLegs.loss>>, <<AnLegs.late>>,
     <<AnLegs.loss, AnLegs.late>>}

AnQuotes == {[t \in Tickers |-> Null], [t \in Tickers |-> IF t = "GOLD" THEN Num(150) ELSE Null]}

Portfolios ==
    {[trades |-> ts, quotes |-> q] : ts \in SeqsUpTo(AnTrades, MaxAnTrades), q \in AnQuotes}

\* The month of a date and the label of its bucket.
MonthOf(date) ==
    CASE date \in {"2025-01-20", "2025-01-28"} -> 1
      [] date = "2025-02-15" -> 2
      [] date = "2025-03-05" -> 3

Months == 1..3
MonthLabel(m) == CASE m = 1 -> "2025-01" [] m = 2 -> "2025-02" [] m = 3 -> "2025-03"

\* 4.1 PnL Calculator: Null is "no value".
legPnL(leg, quotes) ==
    IF ~leg.is_open THEN Num((leg.exit_price - leg.entry_price) * leg.quantity)
    ELSE IF quotes[leg.ticker] # Null
    THEN Num((quotes[leg.ticker].v - leg.entry_price) * leg.quantity)
    ELSE Null

\* 4.2 Trade Aggregator.
tradeIsOpen(legs) == \E i \in 1..Len(legs) : legs[i].is_open

tradePnL(legs, quotes) ==
    SumOver([i \in 1..Len(legs) |-> legPnL(legs[i], quotes).v],
            {i \in 1..Len(legs) : legPnL(legs[i], quotes) # Null})

\* 4.3 Analytics Summarizer: the sum of the trade PnL over the open or the
\* closed trades.
tradesPnL(p, open) ==
    SumOver([i \in 1..Len(p.trades) |-> tradePnL(p.trades[i], p.quotes)],
            {i \in 1..Len(p.trades) : tradeIsOpen(p.trades[i]) = open})

\* The closed legs of the portfolio, as pairs <<trade, leg>>.
closedLegs(p) ==
    UNION {{<<i, j>> : j \in {j \in 1..Len(p.trades[i]) : ~p.trades[i][j].is_open}} :
              i \in 1..Len(p.trades)}

bucketPnL(p, m) ==
    SumOver([k \in closedLegs(p) |-> legPnL(p.trades[k[1]][k[2]], p.quotes).v],
            {k \in closedLegs(p) : MonthOf(p.trades[k[1]][k[2]].exit_date) = m})

RECURSIVE buckets(_, _)
buckets(p, m) ==
    IF m \notin Months THEN << >>
    ELSE (IF \E k \in closedLegs(p) : MonthOf(p.trades[k[1]][k[2]].exit_date) = m
          THEN <<[date |-> MonthLabel(m), pnl |-> Num(bucketPnL(p, m))]>>
          ELSE << >>) \o buckets(p, m + 1)

compute_analytics_summary(p) ==
    [loaded |-> TRUE,
     total_open_trades |-> Cardinality({i \in 1..Len(p.trades) : tradeIsOpen(p.trades[i])}),
     total_closed_trades |-> Cardinality({i \in 1..Len(p.trades) : ~tradeIsOpen(p.trades[i])}),
     open_trades_pnl |-> Num(tradesPnL(p, TRUE)),
     closed_trades_pnl |-> Num(tradesPnL(p, FALSE)),
     overall_pnl |-> Num(tradesPnL(p, FALSE)),
     pnl_over_time |-> buckets(p, 1)]

\* parseFloat(value || 0)
parseFloatOrZero(x) == IF Truthy(x) THEN parseFloat(x) ELSE 0

\* formatCurrency of Analysis.jsx: the prefix and the absolute amount.
formatCurrency(value) ==
    LET num == parseFloatOrZero(value)
    IN  [kind |-> "value", sign |-> IF num >= 0 THEN "+" ELSE "-", abs |-> Abs(num)]

Skeleton == [kind |-> "skeleton", sign |-> "", abs |-> 0]

totalOpenTradesPnL(a) == parseFloatOrZero(a.open_trades_pnl)

\* Variant: the points of the chart in reverse order.
lineData_Reversed(a) ==
    [i \in 1..Len(a.pnl_over_time) |->
        LET item == a.pnl_over_time[Len(a.pnl_over_time) + 1 - i]
        IN  [date |-> item.date, pnl |-> parseFloat(item.pnl)]]

lineData(a) ==
    [i \in 1..Len(a.pnl_over_time) |->
        [date |-> a.pnl_over_time[i].date, pnl |-> parseFloat(a.pnl_over_time[i].pnl)]]

\* Variant: the Overall PnL card adds the open trades' PnL.
AnRender_Blended(a, ld) ==
    [loading |-> ld,
     totalTrades |-> a.total_open_trades + a.total_closed_trades,
     openTrades |-> a.total_open_trades,
     closedTrades |-> a.total_closed_trades,
     overallPnL |-> IF ld THEN Skeleton
                    ELSE formatCurrency(Num(parseFloatOrZero(a.overall_pnl)
                                            + totalOpenTradesPnL(a))),
     openTradesPnL |-> IF ld THEN Skeleton ELSE formatCurrency(Num(totalOpenTradesPnL(a))),
     closedTradesPnL |-> IF ld THEN Skeleton ELSE formatCurrency(a.closed_trades_pnl),
     lineData |-> IF ld THEN << >> ELSE lineData(a)]

\* What Analysis renders: the stat cards and the series of the line chart.
AnRender(a, ld) ==
    [loading |-> ld,
     totalTrades |-> a.total_open_trades + a.total_closed_trades,
     openTrades |-> a.total_open_trades,
     closedTrades |-> a.total_closed_trades,
     overallPnL |-> IF ld THEN Skeleton ELSE formatCurrency(a.overall_pnl),
     openTradesPnL |-> IF ld THEN Skeleton ELSE formatCurrency(Num(totalOpenTradesPnL(a))),
     closedTradesPnL |-> IF ld THEN Skeleton ELSE formatCurrency(a.closed_trades_pnl),
     lineData |-> IF ld THEN << >> ELSE lineData(a)]

\* After construction: loading is true and the effect has called loadData,
\* whose request is in flight.
InitAnalysis ==
    /\ ViewIdle
    /\ formOpen = FALSE
    /\ FormIdle
    /\ SnapFormIdle
    /\ SnapViewIdle
    /\ ListIdle
    /\ DeleteIdle
    /\ portfolio \in Portfolios
    /\ analytics = NoAnalytics
    /\ anLoading = TRUE
    /\ anError = ""
    /\ anView = AnRender(NoAnalytics, TRUE)

\* loadData, after `await analyticsApi.getSummary()` resolved.
loadDataOk ==
    /\ anLoading
    /\ analytics' = compute_analytics_summary(portfolio)
    /\ anLoading' = FALSE
    /\ anView' = AnRender(analytics', FALSE)
    /\ UNCHANGED <<portfolio, anError>>
    /\ UNCHANGED <<viewVars, formVars, snapFormVars, snapViewVars, listVars, deleteVars>>

\* loadData, after the request was rejected.
loadDataErr ==
    /\ anLoading
    /\ anError' = "Failed to load dashboard data"
    /\ anLoading' = FALSE
    /\ anView' = AnRender(analytics, FALSE)
    /\ UNCHANGED <<portfolio, analytics>>
    /\ UNCHANGED <<viewVars, formVars, snapFormVars, snapViewVars, listVars, deleteVars>>

\* onClose of the error alert.
dismissError ==
    /\ anError # ""
    /\ anError' = ""
    /\ UNCHANGED <<portfolio, analytics, anLoading, anView>>
    /\ UNCHANGED <<viewVars, formVars, snapFormVars, snapViewVars, listVars, deleteVars>>

NextAnalysis == loadDataOk \/ loadDataErr \/ dismissError

SpecAnalysis == InitAnalysis /\ [][NextAnalysis]_vars

----------------------------------------------------------------------------
(* SnapshotDetails.jsx: the snapshot details page, and the comparison the  *)
(* backend serves with each leg (specification section 4.4)                *)

\* The stored legs of the snapshot and the current quotes.
SnapLeg(id, tk, price) ==
    [id |-> id, ticker |-> tk, date |-> EntryDate, price |-> price, quantity |-> 10]

ReferencePrices == {100, 200}
CurrentQuotes == {Null, Num(90), Num(100), Num(110)}

SnapStores ==
    {[legs |-> [i \in 1..Len(ls) |-> SnapLeg(i, ls[i][1], ls[i][2])], quotes |-> q] :
        ls \in SeqsUpTo(Tickers \X ReferencePrices, MaxSnapLegs),
        q \in [Tickers -> CurrentQuotes]}

DaysSince == 5

\* 4.4 Snapshot Comparator: the movement fields of one leg, Null when the
\* quotes have no price for the ticker.
compute_snapshot_comparison(leg, quotes) ==
    LET cur == quotes[leg.ticker]
    IN  [id |-> leg.id, ticker |-> leg.ticker, date |-> leg.date,
         price |-> Num(leg.price), quantity |-> leg.quantity,
         current_price |-> cur,
         points_moved |-> IF cur = Null THEN Null ELSE Num(cur.v - leg.price),
         percentage_moved |-> IF cur = Null THEN Null
                              ELSE Num(((cur.v - leg.price) * 100) \div leg.price),
         days_since_snapshot |-> DaysSince]

\* GET /snapshots/{id}/
getSnapshotById(st) ==
    [loaded |-> TRUE,
     legs |-> [i \in 1..Len(st.legs) |-> compute_snapshot_comparison(st.legs[i], st.quotes)]]

\* Variant: a missing movement is formatted like the amount 0.
formatMovement_ZeroForMissing(value) ==
    LET num == IF value = Null THEN 0 ELSE parseFloat(value)
    IN  [kind |-> "value", text |-> [sign |-> IF num >= 0 THEN "+" ELSE "-", abs |-> Abs(num)]]

\* formatMovement: the text ("-" or the signed amount).
formatMovement(value) ==
    IF value = Null THEN Dash
    ELSE LET num == parseFloat(value)
         IN  [kind |-> "value",
              text |-> [sign |-> IF num >= 0 THEN "+" ELSE "-", abs |-> Abs(num)]]

\* formatPercentage: the text ("-" or the signed percentage).
formatPercentage(value) ==
    IF value = Null THEN Dash
    ELSE LET num == parseFloat(value)
         IN  [kind |-> "value",
              text |-> [sign |-> IF num >= 0 THEN "+" ELSE "-", abs |-> Abs(num)]]

\* The columns of the legs table that have a sort header.
SortColumns == {"ticker", "date", "price", "current_price", "points_moved",
                "percentage_moved", "days_since_snapshot", "quantity"}

\* `parseFloat(x) || 0` of a field of a leg.
parseFloatOr0(x) == IF x = Null THEN 0 ELSE parseFloat(x)

\* aVal / bVal of the comparator: the value a leg is sorted by.  Tickers
\* are compared with localeCompare, which orders GOLD before SILVER.
sortValue(leg, col) ==
    CASE col = "ticker" -> (IF leg.ticker = "GOLD" THEN 1 ELSE 2)
      [] col = "date" -> (IF leg.date = "" THEN 0 ELSE 20250115)
      [] col = "price" -> parseFloatOr0(leg.price)
      [] col = "current_price" -> parseFloatOr0(leg.current_price)
      [] col = "points_moved" -> parseFloatOr0(leg.points_moved)
      [] col = "percentage_moved" -> parseFloatOr0(leg.percentage_moved)
      [] col = "days_since_snapshot" -> leg.days_since_snapshot
      [] col = "quantity" -> leg.quantity

\* Variant: the comparator ignores sortDirection.
compareLegs_AscOnly(a, b, col, dir) == sortValue(a, col) - sortValue(b, col)

\* The comparator of getSortedLegs: negative when a goes before b.
compareLegs(a, b, col, dir) ==
    IF dir = "asc" THEN sortValue(a, col) - sortValue(b, col)
    ELSE sortValue(b, col) - sortValue(a, col)

\* Array.prototype.sort with that comparator: a stable sort.
RECURSIVE sortLegs(_, _, _)
sortLegs(legs, col, dir) ==
    IF Len(legs) <= 1 THEN legs
    ELSE LET rest == sortLegs(SubSeq(legs, 1, Len(legs) - 1), col, dir)
             last == legs[Len(legs)]
             k == Cardinality({i \in 1..Len(rest) : compareLegs(rest[i], last, col, dir) <= 0})
         IN  SubSeq(rest, 1, k) \o <<last>> \o SubSeq(rest, k + 1, Len(rest))

\* getSortedLegs: a sorted copy of snapshot.legs, [] without a snapshot.
getSortedLegs(sd, col, dir) == IF ~sd.loaded THEN << >> ELSE sortLegs(sd.legs, col, dir)

\* One row of the legs table.
SnapRow(leg) ==
    [id |-> leg.id,
     ticker |-> leg.ticker,
     currentPrice |-> IF Truthy(leg.current_price)
                      THEN [kind |-> "value",
                            text |-> [sign |-> "", abs |-> parseFloat(leg.current_price)]]
                      ELSE Dash,
     movement |-> formatMovement(leg.points_moved),
     percentage |-> formatPercentage(leg.percentage_moved),
     quantity |-> leg.quantity]

\* What SnapshotDetails renders.
SdRender(sd, ld, err, col, dir) ==
    IF ld THEN [branch |-> "loading", rows |-> << >>]
    ELSE IF err # "" THEN [branch |-> "error", rows |-> << >>]
    ELSE IF ~sd.loaded THEN [branch |-> "not-found", rows |-> << >>]
    ELSE [branch |-> "main",
          rows |-> [i \in 1..Len(sd.legs) |-> SnapRow(getSortedLegs(sd, col, dir)[i])]]

\* After construction: loading is true and the fetch effect has called
\* fetchSnapshot, whose request is in flight.
InitSnapView ==
    /\ ViewIdle
    /\ formOpen = FALSE
    /\ FormIdle
    /\ SnapFormIdle
    /\ AnalysisIdle
    /\ ListIdle
    /\ DeleteIdle
    /\ snapStore \in SnapStores
    /\ snapshotData = NoSnapshotData
    /\ sdLoading = TRUE
    /\ sdError = ""
    /\ sortColumn = "ticker"
    /\ sortDirection = "asc"
    /\ sdView = SdRender(NoSnapshotData, TRUE, "", "ticker", "asc")

\* fetchSnapshot, after `await snapshotsApi.getById(snapshotId)` resolved.
fetchSnapshotOk ==
    /\ sdLoading
    /\ snapshotData' = getSnapshotById(snapStore)
    /\ sdLoading' = FALSE
    /\ sdView' = SdRender(snapshotData', FALSE, sdError, sortColumn, sortDirection)
    /\ UNCHANGED <<snapStore, sdError, sortColumn, sortDirection>>
    /\ UNCHANGED <<viewVars, formVars, snapFormVars, analysisVars, listVars, deleteVars>>

\* fetchSnapshot, after the request was rejected.
fetchSnapshotErr ==
    /\ sdLoading
    /\ sdError' = "Failed to load snapshot details"
    /\ sdLoading' = FALSE
    /\ sdView' = SdRender(snapshotData, FALSE, sdError', sortColumn, sortDirection)
    /\ UNCHANGED <<snapStore, snapshotData, sortColumn, sortDirection>>
    /\ UNCHANGED <<viewVars, formVars, snapFormVars, analysisVars, listVars, deleteVars>>

\* handleSort: a click on the sort header of a column of the legs table.
handleSort(column) ==
    /\ sdView.branch = "main"
    /\ column \in SortColumns
    /\ IF sortColumn = column
       THEN /\ sortDirection' = IF sortDirection = "asc" THEN "desc" ELSE "asc"
            /\ UNCHANGED sortColumn
       ELSE /\ sortColumn' = column
            /\ sortDirection' = "asc"
    /\ sdView' = SdRender(snapshotData, sdLoading, sdError, sortColumn', sortDirection')
    /\ UNCHANGED <<snapStore, snapshotData, sdLoading, sdError>>
    /\ UNCHANGED <<viewVars, formVars, snapFormVars, analysisVars, listVars, deleteVars>>

NextSnapView ==
    \/ fetchSnapshotOk
    \/ fetchSnapshotErr
    \/ \E column \in SortColumns : handleSort(column)

SpecSnapView == InitSnapView /\ [][NextSnapView]_vars

----------------------------------------------------------------------------
(* The trades list (specification SpecList): pagination state and the      *)
(* getList requests.  The snapshots list (Snapshots.jsx) has the same      *)
(* state, effect and handlers over snapshotsApi.getList.                   *)

MaxListFetches == 2

\* rowsPerPageOptions of the TablePagination.
RowsPerPageOptions == {5, 10, 25, 50}

\* The numbers of trades the server may hold when it answers.
TotalCounts == {0, 12}

\* After construction: the effect has called fetchTrades for page 0 and 10
\* rows per page.
InitList ==
    /\ ViewIdle
    /\ formOpen = FALSE
    /\ FormIdle
    /\ SnapFormIdle
    /\ AnalysisIdle
    /\ SnapViewIdle
    /\ listPage = 0
    /\ rowsPerPage = 10
    /\ totalCount = 0
    /\ listRows = 0
    /\ listLoading = TRUE
    /\ listError = ""
    /\ listFetches = <<getListParams(0, 10)>>
    /\ lastRequest = getListParams(0, 10)
    /\ DeleteIdle

\* handleChangePage: the back or next button of the TablePagination, which
\* are enabled while a previous or a next page exists.  The state change
\* makes a new fetchTrades, so the effect calls it.
handleChangePage(newPage) ==
    /\ Len(listFetches) < MaxListFetches
    /\ \/ newPage = listPage - 1 /\ listPage > 0
       \/ newPage = listPage + 1 /\ (listPage + 1) * rowsPerPage < totalCount
    /\ listPage' = newPage
    /\ listLoading' = TRUE
    /\ listError' = ""
    /\ listFetches' = Append(listFetches, getListParams(newPage, rowsPerPage))
    /\ lastRequest' = getListParams(newPage, rowsPerPage)
    /\ UNCHANGED <<rowsPerPage, totalCount, listRows>>
    /\ UNCHANGED <<viewVars, formVars, snapFormVars, analysisVars, snapViewVars, deleteVars>>

\* Variant: the page is kept when the rows per page change.
handleChangeRowsPerPage_KeepPage(value) ==
    /\ Len(listFetches) < MaxListFetches
    /\ value \in RowsPerPageOptions \ {rowsPerPage}
    /\ rowsPerPage' = value
    /\ listLoading' = TRUE
    /\ listError' = ""
    /\ listFetches' = Append(listFetches, getListParams(listPage, value))
    /\ lastRequest' = getListParams(listPage, value)
    /\ UNCHANGED <<listPage, totalCount, listRows>>
    /\ UNCHANGED <<viewVars, formVars, snapFormVars, analysisVars, snapViewVars, deleteVars>>

\* handleChangeRowsPerPage: setRowsPerPage(parseInt(value, 10)) and
\* setPage(0) in one batch, then the effect calls the new fetchTrades.  The
\* value is one of the options, which parseInt gives back as it is.
handleChangeRowsPerPage(value) ==
    /\ Len(listFetches) < MaxListFetches
    /\ value \in RowsPerPageOptions \ {rowsPerPage}
    /\ rowsPerPage' = value
    /\ listPage' = 0
    /\ listLoading' = TRUE
    /\ listError' = ""
    /\ listFetches' = Append(listFetches, getListParams(0, value))
    /\ lastRequest' = getListParams(0, value)
    /\ UNCHANGED <<totalCount, listRows>>
    /\ UNCHANGED <<viewVars, formVars, snapFormVars, analysisVars, snapViewVars, deleteVars>>

\* The sequence q without its i-th element.
RemoveAt(q, i) == SubSeq(q, 1, i - 1) \o SubSeq(q, i + 1, Len(q))

\* fetchTrades, after `await tradesApi.getList(...)` resolved with `count`
\* trades in all: setTrades(data.results), setTotalCount(data.count) and
\* setLoading(false), whichever request it was.
getListOk(i, count) ==
    /\ i \in 1..Len(listFetches)
    /\ count \in TotalCounts
    /\ LET req == listFetches[i]
           left == count - (req.page - 1) * req.page_size
       IN  listRows' = IF left <= 0 THEN 0
                       ELSE IF left < req.page_size THEN left ELSE req.page_size
    /\ totalCount' = count
    /\ listLoading' = FALSE
    /\ listFetches' = RemoveAt(listFetches, i)
    /\ UNCHANGED <<listPage, rowsPerPage, listError, lastRequest>>
    /\ UNCHANGED <<viewVars, formVars, snapFormVars, analysisVars, snapViewVars, deleteVars>>

\* fetchTrades, after the request was rejected.
getListErr(i) ==
    /\ i \in 1..Len(listFetches)
    /\ listError' = "Failed to load trades"
    /\ listLoading' = FALSE
    /\ listFetches' = RemoveAt(listFetches, i)
    /\ UNCHANGED <<listPage, rowsPerPage, totalCount, listRows, lastRequest>>
    /\ UNCHANGED <<viewVars, formVars, snapFormVars, analysisVars, snapViewVars, deleteVars>>

NextList ==
    \/ \E newPage \in 0..2 : handleChangePage(newPage)
    \/ \E value \in RowsPerPageOptions : handleChangeRowsPerPage(value)
    \/ \E i \in 1..MaxListFetches : \E count \in TotalCounts : getListOk(i, count)
    \/ \E i \in 1..MaxListFetches : getListErr(i)

SpecList == InitList /\ [][NextList]_vars

----------------------------------------------------------------------------
(* TradeDetails.jsx: deleting the trade (specification SpecDelete).  The   *)
(* view shows a loaded trade without open legs, so nothing is polled.      *)

MaxDeletes == 3

\* The trade is loaded and shown, the dialog and the snackbar are closed.
InitDelete ==
    /\ mounted = TRUE
    /\ tradeId = 1
    /\ trade \in {t \in ServerTrades(1) : ~shouldPoll(t)}
    /\ livePrices = NoPrices
    /\ loading = FALSE
    /\ error = ""
    /\ formOpen = FALSE
    /\ fetches = NoFetches
    /\ timers = 0
    /\ polls = 0
    /\ warned = FALSE
    /\ view = Render(trade, NoPrices, FALSE, "")
    /\ FormIdle
    /\ PagesIdle

handleDeleteClick ==
    /\ mounted
    /\ view.branch = "main"
    /\ ~deleteDialogOpen
    /\ deleteDialogOpen' = TRUE
    /\ UNCHANGED <<snackbar, deletes, deleted, navTimers, location>>
    /\ UNCHANGED <<viewVars, formVars, snapFormVars, analysisVars, snapViewVars, listVars>>

\* Cancel, the backdrop or Escape: setDeleteDialogOpen(false).
handleDeleteCancel ==
    /\ mounted
    /\ deleteDialogOpen
    /\ deleteDialogOpen' = FALSE
    /\ UNCHANGED <<snackbar, deletes, deleted, navTimers, location>>
    /\ UNCHANGED <<viewVars, formVars, snapFormVars, analysisVars, snapViewVars, listVars>>

\* handleDeleteConfirm up to its await.  The Delete button of the dialog is
\* not disabled while a request is in flight.  The bound is on the requests
\* and navigation timeouts that are pending together.
handleDeleteConfirm ==
    /\ mounted
    /\ deleteDialogOpen
    /\ deletes + navTimers < MaxDeletes
    /\ deletes' = deletes + 1
    /\ UNCHANGED <<deleteDialogOpen, snackbar, deleted, navTimers, location>>
    /\ UNCHANGED <<viewVars, formVars, snapFormVars, analysisVars, snapViewVars, listVars>>

\* handleDeleteConfirm, after `await tradesApi.delete(tradeId)` resolved:
\* the success snackbar, the timeout of the navigation, then `finally`.  A
\* state update of an unmounted component is dropped, the timeout is not.
deleteOk ==
    /\ deletes > 0
    /\ deletes' = deletes - 1
    /\ deleted' = TRUE
    /\ navTimers' = navTimers + 1
    /\ IF mounted
       THEN /\ snackbar' = [open |-> TRUE, severity |-> "success"]
            /\ deleteDialogOpen' = FALSE
       ELSE UNCHANGED <<snackbar, deleteDialogOpen>>
    /\ UNCHANGED location
    /\ UNCHANGED <<viewVars, formVars, snapFormVars, analysisVars, snapViewVars, listVars>>

\* Variant: the navigation is scheduled after the try block, so also after a
\* rejected request.
deleteErr_Navigates ==
    /\ deletes > 0
    /\ deletes' = deletes - 1
    /\ navTimers' = navTimers + 1
    /\ IF mounted
       THEN /\ snackbar' = [open |-> TRUE, severity |-> "error"]
            /\ deleteDialogOpen' = FALSE
       ELSE UNCHANGED <<snackbar, deleteDialogOpen>>
    /\ UNCHANGED <<deleted, location>>
    /\ UNCHANGED <<viewVars, formVars, snapFormVars, analysisVars, snapViewVars, listVars>>

\* handleDeleteConfirm, after the request was rejected: the error snackbar,
\* then `finally`.
deleteErr ==
    /\ deletes > 0
    /\ deletes' = deletes - 1
    /\ IF mounted
       THEN /\ snackbar' = [open |-> TRUE, severity |-> "error"]
            /\ deleteDialogOpen' = FALSE
       ELSE UNCHANGED <<snackbar, deleteDialogOpen>>
    /\ UNCHANGED <<deleted, navTimers, location>>
    /\ UNCHANGED <<viewVars, formVars, snapFormVars, analysisVars, snapViewVars, listVars>>

\* The timeout fires: navigate('/trades').  The route of the trades list
\* replaces the view, which is unmounted.
navigateTimeout ==
    /\ navTimers > 0
    /\ navTimers' = navTimers - 1
    /\ location' = "trades"
    /\ mounted' = FALSE
    /\ UNCHANGED <<deleteDialogOpen, snackbar, deletes, deleted>>
    /\ UNCHANGED <<tradeId, trade, livePrices, loading, error, formOpen, fetches,
                   timers, polls, warned, view>>
    /\ UNCHANGED <<formVars, snapFormVars, analysisVars, snapViewVars, listVars>>

\* handleBack: navigate('/trades') by the Back button, which unmounts the
\* view; requests and timeouts that are pending stay pending.
handleBack ==
    /\ mounted
    /\ location' = "trades"
    /\ mounted' = FALSE
    /\ UNCHANGED <<deleteDialogOpen, snackbar, deletes, deleted, navTimers>>
    /\ UNCHANGED <<tradeId, trade, livePrices, loading, error, formOpen, fetches,
                   timers, polls, warned, view>>
    /\ UNCHANGED <<formVars, snapFormVars, analysisVars, snapViewVars, listVars>>

\* The snackbar hides itself after 4 s or is closed.
closeSnackbar ==
    /\ mounted
    /\ snackbar.open
    /\ snackbar' = [snackbar EXCEPT !.open = FALSE]
    /\ UNCHANGED <<deleteDialogOpen, deletes, deleted, navTimers, location>>
    /\ UNCHANGED <<viewVars, formVars, snapFormVars, analysisVars, snapViewVars, listVars>>

NextDelete ==
    \/ handleDeleteClick
    \/ handleDeleteCancel
    \/ handleDeleteConfirm
    \/ deleteOk
    \/ deleteErr
    \/ navigateTimeout
    \/ handleBack
    \/ closeSnackbar

SpecDelete == InitDelete /\ [][NextDelete]_vars

----------------------------------------------------------------------------
(* Properties of the render-time computation (SpecCalc)                    *)

Legs == trade.legs
LegIdx == 1..Len(trade.legs)
Main == view.branch = "main"

HasQuote(leg) == livePrices.loaded /\ livePrices.prices[leg.ticker] # Null

C2_OpenLegUnrealized ==
    Main => \A i \in LegIdx :
        (Legs[i].is_open /\ HasQuote(Legs[i]))
        => LET ltp == livePrices.prices[Legs[i].ticker].v
               entry == Legs[i].entry_price.v
               r == view.rows[i].legPnL
           IN  /\ r = Num((ltp - entry) * Legs[i].quantity)
               /\ (Legs[i].quantity < 0 /\ ltp < entry) => r.v > 0
               /\ (Legs[i].quantity < 0 /\ ltp > entry) => r.v < 0

C2_Witness ==
    /\ Main
    /\ \E i \in LegIdx :
        /\ Legs[i].is_open /\ HasQuote(Legs[i]) /\ Legs[i].quantity < 0
        /\ livePrices.prices[Legs[i].ticker].v < Legs[i].entry_price.v
        /\ view.rows[i].legPnL.v > 0
    /\ \E i \in LegIdx :
        /\ Legs[i].is_open /\ HasQuote(Legs[i]) /\ Legs[i].quantity > 0
        /\ view.rows[i].legPnL.v > 0

\* C3: an open leg with no quote for its ticker has the "no value" PnL,
\* never 0, and its cell shows "-"; a leg whose PnL is 0 shows a value, so
\* the two are never shown the same way.
C3_NoQuoteIsNoValue ==
    Main => \A i \in LegIdx :
        /\ (Legs[i].is_open /\ ~HasQuote(Legs[i]))
           => /\ view.rows[i].legPnL = Null
              /\ view.rows[i].legPnL # Num(0)
              /\ view.rows[i].pnlCell = Dash
        /\ view.rows[i].legPnL = Num(0)
           => /\ view.rows[i].pnlCell.kind = "value"
              /\ view.rows[i].pnlCell # Dash

C3_Witness ==
    /\ Main
    /\ \E i, j \in LegIdx :
        /\ Legs[i].is_open /\ ~HasQuote(Legs[i]) /\ view.rows[i].pnlCell = Dash
        /\ view.rows[j].legPnL = Num(0) /\ view.rows[j].pnlCell.kind = "value"

\* C4: the Total PnL is the sum of the PnL of exactly the legs whose PnL is
\* defined; a closed leg (entry 100, exit 120, quantity 10) with an open leg
\* without quote totals 200.
ExampleClosed(leg) ==
    /\ ~leg.is_open /\ leg.entry_price.v = 100 /\ leg.exit_price = Str(120)
    /\ leg.quantity = 10

C4_TotalIsPartialSum ==
    Main =>
        /\ view.totalPnL =
               SumOver([i \in LegIdx |-> view.rows[i].legPnL.v],
                       {i \in LegIdx : view.rows[i].legPnL # Null})
        /\ ( /\ Len(Legs) = 2
             /\ ExampleClosed(Legs[1])
             /\ Legs[2].is_open /\ ~HasQuote(Legs[2]) )
           => view.totalPnL = 200

C4_Witness ==
    /\ Main
    /\ Len(Legs) = 2
    /\ ExampleClosed(Legs[1])
    /\ Legs[2].is_open /\ ~HasQuote(Legs[2])
    /\ view.rows[2].legPnL = Null
    /\ view.totalPnL = 200

\* C9: the trade status is Open if and only if at least one leg is open, a
\* trade with every leg closed is Closed, and the open-leg and closed-leg
\* counts add up to the number of legs.
C9_StatusAndCounts ==
    Main =>
        /\ (view.status = "Open") <=> (Cardinality({i \in LegIdx : Legs[i].is_open}) >= 1)
        /\ (\A i \in LegIdx : ~Legs[i].is_open) => view.status = "Closed"
        /\ view.openLegs + view.closedLegs = view.totalLegs
        /\ view.totalLegs = Len(Legs)

C9_Witness ==
    /\ Main
    /\ Len(Legs) = 2
    /\ ~Legs[1].is_open /\ Legs[2].is_open
    /\ view.status = "Open"
    /\ view.openLegs = 1 /\ view.closedLegs = 1

----------------------------------------------------------------------------
(* Properties of the life cycle of the trade details view (Spec)           *)

\* The trade-level summary: the Total PnL card and the summary card.
SummaryCard ==
    [pnl |-> view.pnl, status |-> view.status, totalLegs |-> view.totalLegs,
     openLegs |-> view.openLegs, closedLegs |-> view.closedLegs]

\* Some leg's PnL was left out of the total.
IsPartial == \E i \in 1..Len(view.rows) : view.rows[i].legPnL = Null

\* C5: the trade view exposes whether a leg was left out of the total: a
\* total with omitted legs is distinguishable from a complete one, so the
\* summary cannot stay the same while "some leg was omitted" changes.
C5_PartialExposed ==
    [][(Main /\ Main' /\ SummaryCard' = SummaryCard) => (IsPartial' = IsPartial)]_vars

\* C6: a poll timer exists exactly while the view is mounted and the loaded
\* trade has an open leg; it starts with an immediate fetch; a poll is
\* issued only while the trade has an open leg.
C6_PollingWhileOpen ==
    /\ [](timers = IF mounted /\ hasOpenLegs(trade) THEN 1 ELSE 0)
    /\ [][ /\ (timers = 0 /\ timers' = 1) => polls' = polls + 1
           /\ (polls' > polls) => (mounted' /\ hasOpenLegs(trade') /\ timers' = 1)
           /\ (hasOpenLegs(trade) /\ ~hasOpenLegs(trade')) => timers' = 0 ]_vars

C6_Witness ==
    /\ mounted
    /\ trade # NoTrade /\ ~hasOpenLegs(trade)
    /\ livePrices.loaded
    /\ timers = 0

\* C7: a failed quote poll leaves the quote state, the error state and
\* every computed leg PnL and total as they were.
C7_FailedPollKeepsQuotes ==
    [][fetchLivePricesErr => (livePrices' = livePrices /\ error' = error /\ view' = view)]_vars

C7_Witness ==
    /\ warned
    /\ mounted
    /\ livePrices.loaded
    /\ error = ""
    /\ Main /\ hasOpenLegs(trade)
    /\ \E i \in LegIdx : view.rows[i].legPnL # Null

\* C8: once the poll loop is cancelled (no timer left), a poll still in
\* flight does not update the quote state when its response arrives.
C8_CancelledPollIgnored ==
    [][(timers = 0 /\ polls > 0) => livePrices' = livePrices]_vars

----------------------------------------------------------------------------
(* Properties of the trade form (SpecForm)                                 *)

\* The fields of a leg that are invalid as data: a missing name, ticker or
\* entry date, an entry price missing or not positive, a quantity missing
\* or zero, a closed leg without exit date or exit price.
InvalidFields(leg) ==
    {f \in Fields :
        \/ f = "name" /\ leg.name = ""
        \/ f = "ticker" /\ leg.ticker = ""
        \/ f = "entry_date" /\ leg.entry_date = ""
        \/ f = "entry_price"
             /\ (leg.entry_price = "" \/ (parseFloatText(leg.entry_price) # NaN
                                           /\ parseFloatText(leg.entry_price).v <= 0))
        \/ f = "quantity" /\ (leg.quantity = "" \/ parseInt(leg.quantity) = Num(0))
        \/ f = "exit_date" /\ ~leg.is_open /\ leg.exit_date = ""
        \/ f = "exit_price" /\ ~leg.is_open /\ leg.exit_price = ""}

InvalidKeys == {k \in (1..Len(formLegs)) \X Fields : k[2] \in InvalidFields(formLegs[k[1]])}

\* C10: while some leg of the form is invalid, no create or update request
\* is issued, and a submit records the error of every invalid field.
C10_InvalidNeverSubmitted ==
    [][InvalidKeys # {} =>
          /\ (pending' = pending \/ pending' = NoRequest)
          /\ handleSubmit => (InvalidKeys \subseteq errors' /\ formLoading' = FALSE)]_vars

C10_Witness ==
    /\ formOpen
    /\ pending = NoRequest /\ ~formLoading /\ successes = 0
    /\ \E i \in 1..Len(formLegs) :
          /\ ~formLegs[i].is_open /\ formLegs[i].exit_price = ""
          /\ <<i, "exit_price">> \in errors
          /\ <<i, "exit_date">> \in errors

\* C11: every leg of a payload the form sends is either closed with an exit
\* date and an exit price, or open with neither, whatever exit values the
\* form holds for a leg that was switched to open.
C11_PayloadOpenClosed ==
    pending # NoRequest =>
        \A i \in 1..Len(pending.legs) :
            LET leg == pending.legs[i]
            IN  IF leg.is_open
                THEN leg.exit_date = Null /\ leg.exit_price = Null
                ELSE /\ leg.exit_date # Null
                     /\ leg.exit_price.k = "num"

\* The payload in flight is the one of the legs the form holds, and one of
\* them is open with exit values still in its fields.
C11_Witness ==
    /\ pending # NoRequest
    /\ pending.legs = legsData(formLegs)
    /\ \E i \in 1..Len(formLegs) :
          /\ formLegs[i].is_open
          /\ formLegs[i].exit_date # "" /\ formLegs[i].exit_price # ""
          /\ pending.legs[i].exit_date = Null
          /\ pending.legs[i].exit_price = Null

\* C13: the leg list of the form is never empty, so every payload the form
\* sends has at least one leg; removing the only leg leaves the list as it
\* is.
C13_AtLeastOneLeg ==
    /\ [](Len(formLegs) >= 1)
    /\ [](pending # NoRequest => Len(pending.legs) >= 1)
    /\ [][\A index \in 1..MaxFormLegs :
            (handleRemoveLeg(index) /\ Len(formLegs) = 1) => formLegs' = formLegs]_vars

\* A leg of a stored two-leg trade was removed and the remaining leg sent.
C13_Witness ==
    /\ Len(formTrade.legs) = 2
    /\ edits = 1
    /\ Len(formLegs) = 1
    /\ pending.kind = "update"
    /\ pending.legs = legsData(formLegs)

\* C15: every quantity the form sends is a nonzero integer, never zero and
\* never NaN.
C15_QuantityNonzeroInteger ==
    pending # NoRequest =>
        \A i \in 1..Len(pending.legs) :
            /\ pending.legs[i].quantity.k = "num"
            /\ pending.legs[i].quantity.v # 0

\* Leg data that is valid by the data model: prices are decimals >= 0.
ValidLegData(leg) ==
    /\ trim(leg.name) # "" /\ trim(leg.ticker) # "" /\ leg.entry_date # ""
    /\ leg.entry_price # "" /\ parseFloatText(leg.entry_price).k = "num"
    /\ parseFloatText(leg.entry_price).v >= 0
    /\ parseInt(leg.quantity).k = "num" /\ parseInt(leg.quantity).v # 0
    /\ ~leg.is_open =>
          /\ leg.exit_date # ""
          /\ leg.exit_price # "" /\ parseFloatText(leg.exit_price).k = "num"
          /\ parseFloatText(leg.exit_price).v >= 0

\* C20: a leg whose entry price (or, closed, exit price) is 0 is valid leg
\* data: a submit of legs that are all valid records no error and sends
\* the request.
C20_ZeroPriceAccepted ==
    [][(handleSubmit /\ \A i \in 1..Len(formLegs) : ValidLegData(formLegs[i]))
          => (errors' = {} /\ pending' # NoRequest)]_vars

----------------------------------------------------------------------------
(* Properties of the snapshot form (SpecSnapForm)                          *)

\* C12: every leg of a payload the snapshot form sends has a price that is
\* a number greater than 0; a submit with a leg whose price is missing, zero
\* or negative records the error and sends nothing.
C12_ReferencePricePositive ==
    /\ [](snapPending # NoSnapRequest =>
            \A i \in 1..Len(snapPending.legs) :
                /\ snapPending.legs[i].price.k = "num"
                /\ snapPending.legs[i].price.v > 0)
    /\ [][(snapHandleSubmit /\ \E i \in 1..Len(snapLegs) : snapLegs[i].price \in {"", "0", "-5"})
            => (snapPending' = NoSnapRequest /\ ~snapLoading'
                /\ \A i \in 1..Len(snapLegs) :
                      snapLegs[i].price \in {"", "0", "-5"} => <<i, "price">> \in snapErrors')]_vars

\* A submit was refused for a leg with the price 0.
C12_Witness ==
    /\ snapOpen
    /\ snapPending = NoSnapRequest /\ ~snapLoading
    /\ \E i \in 1..Len(snapLegs) :
          /\ snapLegs[i].price = "0"
          /\ snapErrors = {<<i, "price">>}

\* C14: a payload of the snapshot form never has an empty list of legs.
C14_SnapshotHasLegs ==
    snapPending # NoSnapRequest => Len(snapPending.legs) >= 1

----------------------------------------------------------------------------
(* Properties of the analysis page (SpecAnalysis)                          *)

AnLoaded == analytics.loaded /\ ~anLoading

\* The closed legs of the stored trades, and the realized PnL of one.
StoredClosedLegs ==
    {k \in UNION {{<<i, j>> : j \in 1..Len(portfolio.trades[i])} :
                    i \in 1..Len(portfolio.trades)} :
        ~portfolio.trades[k[1]][k[2]].is_open}

Realized(k) ==
    LET leg == portfolio.trades[k[1]][k[2]]
    IN  (leg.exit_price - leg.entry_price) * leg.quantity

\* The realized PnL of the trades all of whose legs are closed.
ClosedBook ==
    SumOver([k \in StoredClosedLegs |-> Realized(k)],
            {k \in StoredClosedLegs :
                \A j \in 1..Len(portfolio.trades[k[1]]) : ~portfolio.trades[k[1]][j].is_open})

\* One open trade with an unrealized +500 and one closed trade with -50.
OpenAndClosedExample ==
    /\ portfolio.trades = <<(<<AnLegs.open>>), (<<AnLegs.short>>)>>
    /\ portfolio.quotes["GOLD"] = Num(150)

PointMonth(pt) == CHOOSE m \in Months : MonthLabel(m) = pt.date

ClosedIn(m) == {k \in StoredClosedLegs : MonthOf(portfolio.trades[k[1]][k[2]].exit_date) = m}

\* C17: the chart has one point per month in which a closed leg exited, in
\* chronological order, each the sum of the realized PnL of the legs that
\* exited in that month; months without a closed leg have no point; legs
\* at +100 and -30 in one month give one point of +70.
C17_MonthlyRealizedBuckets ==
    AnLoaded =>
        LET pts == anView.lineData
        IN  /\ Len(pts) = Len(analytics.pnl_over_time)
            /\ \A i \in 1..Len(pts) :
                  /\ pts[i].date = analytics.pnl_over_time[i].date
                  /\ pts[i].pnl = analytics.pnl_over_time[i].pnl.v
            /\ \A i \in 1..Len(pts) :
                  /\ pts[i].date \in {MonthLabel(m) : m \in Months}
                  /\ ClosedIn(PointMonth(pts[i])) # {}
                  /\ pts[i].pnl = SumOver([k \in StoredClosedLegs |-> Realized(k)],
                                          ClosedIn(PointMonth(pts[i])))
            /\ \A i, j \in 1..Len(pts) : i < j => PointMonth(pts[i]) < PointMonth(pts[j])
            /\ \A m \in Months :
                  ClosedIn(m) # {} => \E i \in 1..Len(pts) : pts[i].date = MonthLabel(m)
            /\ portfolio.trades = <<(<<AnLegs.gain, AnLegs.loss>>)>>
                  => pts = <<[date |-> "2025-01", pnl |-> 70]>>

\* Two months with closed legs and an empty month between them.
C17_Witness ==
    /\ AnLoaded
    /\ portfolio.trades = <<(<<AnLegs.gain, AnLegs.loss>>), (<<AnLegs.late>>)>>
    /\ anView.lineData = <<[date |-> "2025-01", pnl |-> 70], [date |-> "2025-03", pnl |-> 100]>>

----------------------------------------------------------------------------
(* Properties of the snapshot details page (SpecSnapView)                  *)

\* The stored leg a row of the table shows.
RowLeg(row) == snapStore.legs[CHOOSE i \in 1..Len(snapStore.legs) : snapStore.legs[i].id = row.id]

\* C18: a leg without a current quote has no movement values: its
\* movement, percentage and current price cells show "-", never 0 or a
\* signed amount; a leg that moved by exactly 0 shows values; reference 100
\* against a quote of 110 shows +10 and +10%.
C18_MissingQuoteIsDash ==
    sdView.branch = "main" =>
        /\ Len(sdView.rows) = Len(snapStore.legs)
        /\ \A r \in 1..Len(sdView.rows) :
              LET row == sdView.rows[r]
                  leg == RowLeg(row)
                  cur == snapStore.quotes[leg.ticker]
              IN  /\ cur = Null =>
                        /\ row.movement = Dash /\ row.percentage = Dash
                        /\ row.currentPrice = Dash
                  /\ (cur # Null /\ cur.v = leg.price) =>
                        /\ row.movement = [kind |-> "value", text |-> [sign |-> "+", abs |-> 0]]
                        /\ row.percentage = [kind |-> "value", text |-> [sign |-> "+", abs |-> 0]]
                        /\ row.movement # Dash /\ row.percentage # Dash
                  /\ (cur = Num(110) /\ leg.price = 100) =>
                        /\ row.movement.text = [sign |-> "+", abs |-> 10]
                        /\ row.percentage.text = [sign |-> "+", abs |-> 10]

\* One leg without quote next to one that did not move.
C18_Witness ==
    /\ sdView.branch = "main"
    /\ \E r, q \in 1..Len(sdView.rows) :
          /\ snapStore.quotes[sdView.rows[r].ticker] = Null
          /\ sdView.rows[r].movement = Dash /\ sdView.rows[r].percentage = Dash
          /\ snapStore.quotes[sdView.rows[q].ticker] = Num(RowLeg(sdView.rows[q]).price)
          /\ sdView.rows[q].movement.kind = "value"
          /\ sdView.rows[q].movement.text.abs = 0

(***************************************************************************)
(* C22 .. C25: concurrency and termination of the TradeDetails life cycle  *)
(* (specification Spec, and SpecLive for the termination property).        *)
(***************************************************************************)

\* C22: at most one poll interval of the TradeDetails view exists at any
\* time (the cleanup of the polling effect clears the previous one before a
\* new one is set), and none exists once the view is unmounted.
C22_AtMostOneTimer ==
    /\ timers <= 1
    /\ ~mounted => timers = 0

\* The view was unmounted while it showed a trade with an open leg: the
\* interval it had is gone.
C22_Witness ==
    /\ ~mounted
    /\ trade # NoTrade
    /\ shouldPoll(trade)
    /\ timers = 0

\* The request of type f completes in this step.
Completes(f) == fetches[f] > 0 /\ fetches' = RemoveFetch(fetches, f)

C24_ShownTradeIsRouteTrade ==
    (mounted /\ ~loading /\ view.branch = "main") => trade.trade_id = tradeId

SameValue(sent, stored) ==
    IF stored = Null THEN sent = Null ELSE sent.k = "num" /\ sent.v = stored.v

\* C26: the form opened on a stored valid trade and submitted without any
\* change sends an update whose legs are, in the same order, the stored legs:
\* same id, name, ticker, is_open, entry_date, exit_date, entry_price,
\* exit_price and quantity.
C26_EditRoundTrip ==
    (pending.kind = "update" /\ edits = 0) =>
        /\ pending.trade_id = formTrade.trade_id
        /\ Len(pending.legs) = Len(formTrade.legs)
        /\ \A i \in 1..Len(formTrade.legs) :
              LET sent == pending.legs[i]
                  stored == formTrade.legs[i]
              IN  /\ sent.id = stored.id
                  /\ sent.name = stored.name
                  /\ sent.ticker = stored.ticker
                  /\ sent.is_open = stored.is_open
                  /\ sent.entry_date = stored.entry_date
                  /\ sent.exit_date = stored.exit_date
                  /\ SameValue(sent.entry_price, stored.entry_price)
                  /\ SameValue(sent.exit_price, stored.exit_price)
                  /\ sent.quantity = Num(stored.quantity)

\* An unchanged trade of an open and a closed (short) leg is being sent.
C26_Witness ==
    /\ pending.kind = "update"
    /\ edits = 0
    /\ Len(pending.legs) = 2
    /\ pending.legs[1].is_open
    /\ ~pending.legs[2].is_open
    /\ pending.legs[2].exit_price = Num(120)

\* The fields of a leg of the form, its id included.
LegKeys == Fields \cup {"id"}

\* C27: handleLegChange(index, field, value) changes that field of that leg
\* only: the number and order of the legs, every other leg and every other
\* field of that leg stay as they are, and of the recorded validation errors
\* only the one keyed by that index and field is cleared.
C27_LegChangeFrame ==
    [][\A index \in 1..MaxFormLegs, field \in Fields :
          \A value \in FieldValues(field) :
              handleLegChange(index, field, value) =>
                  /\ Len(formLegs') = Len(formLegs)
                  /\ formLegs'[index][field] = value
                  /\ \A i \in 1..Len(formLegs), f \in LegKeys :
                        <<i, f>> # <<index, field>> => formLegs'[i][f] = formLegs[i][f]
                  /\ \A k \in errors : k # <<index, field>> => k \in errors'
                  /\ <<index, field>> \notin errors'
                  /\ errors' \subseteq errors]_vars

\* After a rejected validation the name was changed to a blank: its error
\* is cleared although the name is still invalid, the error of the ticker is
\* still recorded.
C27_Witness ==
    /\ edits = 1
    /\ <<1, "name">> \in validate(formLegs)
    /\ <<1, "name">> \notin errors
    /\ <<1, "ticker">> \in errors

\* C29: a rejected create or update does not call onSuccess, sets the form
\* error, returns the loading flag to false and leaves the entered legs as
\* they are; the loading flag is true exactly while a request is in flight,
\* and a request is only sent when none is in flight.
C29_FailedSubmit ==
    /\ [](formLoading <=> pending # NoRequest)
    /\ [][submitErr =>
            /\ successes' = successes
            /\ formError' # ""
            /\ ~formLoading'
            /\ formLegs' = formLegs]_vars
    /\ [][(pending' # pending /\ pending' # NoRequest) =>
            (pending = NoRequest /\ ~formLoading)]_vars

\* A request was rejected: the dialog is still open with the error, not
\* loading, nothing in flight, no success reported.
C29_Witness ==
    /\ formOpen
    /\ formError # ""
    /\ ~formLoading
    /\ pending = NoRequest
    /\ successes = 0
    /\ formLegs = <<TypedLeg>>

(***************************************************************************)
(* C28: sorting of the snapshot legs table (specification SpecSnapView).   *)
(***************************************************************************)

\* The leg of the loaded snapshot that row r of the table shows.
ShownLeg(r) ==
    snapshotData.legs[CHOOSE i \in 1..Len(snapshotData.legs) :
                          snapshotData.legs[i].id = sdView.rows[r].id]

\* C28: handleSort on the active column toggles the direction and keeps the
\* column, on another column it makes that column active with direction asc;
\* in every sort state the rows of the table are a permutation of the legs of
\* the snapshot, ordered by the active column in the active direction; the
\* list held in the state keeps the order the server sent.
C28_SortedPermutation ==
    /\ [][\A column \in SortColumns :
            handleSort(column) =>
                /\ sortColumn' = column
                /\ sortDirection' = IF sortColumn = column /\ sortDirection = "asc"
                                    THEN "desc" ELSE "asc"]_vars
    /\ [](sdView.branch = "main" =>
            /\ Len(sdView.rows) = Len(snapshotData.legs)
            /\ \A i \in 1..Len(snapshotData.legs) :
                  \E r \in 1..Len(sdView.rows) : sdView.rows[r].id = snapshotData.legs[i].id
            /\ \A r, q \in 1..Len(sdView.rows) :
                  r < q =>
                      IF sortDirection = "asc"
                      THEN sortValue(ShownLeg(r), sortColumn) <= sortValue(ShownLeg(q), sortColumn)
                      ELSE sortValue(ShownLeg(r), sortColumn) >= sortValue(ShownLeg(q), sortColumn)
            /\ snapshotData = getSnapshotById(snapStore))

\* The table is sorted by price, descending: the leg the server sent second
\* (reference price 200) is shown first, and the state still holds the legs
\* in the order of the server.
C28_Witness ==
    /\ sdView.branch = "main"
    /\ sortColumn = "price"
    /\ sortDirection = "desc"
    /\ Len(sdView.rows) = 2
    /\ sdView.rows[1].id = 2
    /\ sdView.rows[2].id = 1
    /\ snapshotData.legs[1].id = 1
    /\ snapshotData.legs[1].price = Num(100)
    /\ snapshotData.legs[2].price = Num(200)

(***************************************************************************)
(* C21: pagination of the trades list (specification SpecList).            *)
(***************************************************************************)

C30_DeleteOutcome ==
    /\ [][(deletes' < deletes /\ mounted) => ~deleteDialogOpen']_vars
    /\ [][navTimers' > navTimers => (deleted' /\ deletes' < deletes)]_vars
    /\ [](navTimers > 0 => deleted)
    /\ [][(deleteErr /\ mounted) =>
            /\ trade' = trade /\ view' = view /\ view'.branch = "main"
            /\ snackbar' = [open |-> TRUE, severity |-> "error"]
            /\ navTimers' = navTimers
            /\ location' = "details"]_vars

\* A delete has failed and none has succeeded: the dialog is closed, the
\* error notice is shown over the trade, no navigation is pending.
C30_Witness ==
    /\ mounted
    /\ ~deleted
    /\ deletes = 0
    /\ ~deleteDialogOpen
    /\ snackbar = [open |-> TRUE, severity |-> "error"]
    /\ view.branch = "main"
    /\ Len(trade.legs) = 1
    /\ navTimers = 0
    /\ location = "details"

====
